---- MODULE Spec2Model ----
(***************************************************************************)
(* A model of the JSON-LD expansion engine of src/lib/expand.ts (the       *)
(* current implementation, lines 1-838): context parsing, term resolution, *)
(* context merging, remote context fetching with the context bag, and the  *)
(* iterative expand loop.                                                  *)
(*                                                                         *)
(* Strings are sequences of one-character strings, so that the regular     *)
(* expressions, startsWith and concatenation of the source are computed    *)
(* and not assumed.  The empty sequence stands for JavaScript's undefined  *)
(* in optional string fields (no input of the model is the empty string).  *)
(***************************************************************************)
EXTENDS Integers, Sequences, FiniteSets, TLC

Undefined == <<>>

(***************************************************************************)
(* Strings                                                                 *)
(***************************************************************************)
Letters == {"a", "b", "c", "d", "e", "h", "i", "m", "n", "o", "p", "q",
            "s", "t", "u", "v", "x", "y", "z"}

\* src/lib/expand.ts:41  urlRe = /^[a-zA-Z\\-]+:\/\/[^\.]+\./
urlRe(s) ==
  \E i \in 2..Len(s) :
     /\ \A j \in 1..(i - 1) : s[j] \in Letters \cup {"\\", "-"}
     /\ i + 2 <= Len(s)
     /\ s[i] = ":" /\ s[i + 1] = "/" /\ s[i + 2] = "/"
     /\ \E d \in (i + 4)..Len(s) :
           /\ s[d] = "."
           /\ \A j \in (i + 3)..(d - 1) : s[j] # "."

\* src/lib/expand.ts:43  aliasRe = /^([^\:]+)\:(.*)$/ : the position of the
\* first colon when at least one character precedes it, 0 when no match.
aliasReColon(s) ==
  IF \E i \in 2..Len(s) : s[i] = ":" /\ \A j \in 1..(i - 1) : s[j] # ":"
  THEN CHOOSE i \in 2..Len(s) : s[i] = ":" /\ \A j \in 1..(i - 1) : s[j] # ":"
  ELSE 0

aliasRe(s) ==
  LET i == aliasReColon(s)
  IN  IF i = 0 THEN [match |-> FALSE, prefix |-> <<>>, suffix |-> <<>>]
      ELSE [match |-> TRUE,
            prefix |-> SubSeq(s, 1, i - 1),
            suffix |-> SubSeq(s, i + 1, Len(s))]

\* String.prototype.startsWith('@'), and termOrType[0] === '@'
startsWithAt(s) == Len(s) > 0 /\ s[1] = "@"

KwId        == <<"@", "i", "d">>
KwType      == <<"@", "t", "y", "p", "e">>
KwContainer == <<"@", "c", "o", "n", "t", "a", "i", "n", "e", "r">>
KwSet       == <<"@", "s", "e", "t">>
KwList      == <<"@", "l", "i", "s", "t">>
KwGraph     == <<"@", "g", "r", "a", "p", "h">>
KwContext   == <<"@", "c", "o", "n", "t", "e", "x", "t">>
KwBase      == <<"@", "b", "a", "s", "e">>
KwVersion   == <<"@", "v", "e", "r", "s", "i", "o", "n">>
KwVocab     == <<"@", "v", "o", "c", "a", "b">>
KwLanguage  == <<"@", "l", "a", "n", "g", "u", "a", "g", "e">>
KwIndex     == <<"@", "i", "n", "d", "e", "x">>

(***************************************************************************)
(* JSON values as trees (contexts, remote documents, inputs)               *)
(***************************************************************************)
JNull      == [t |-> "null", s |-> <<>>, c |-> <<>>]
JUndefined == [t |-> "undefined", s |-> <<>>, c |-> <<>>]
JStr(s)    == [t |-> "string", s |-> s, c |-> <<>>]
JNum(s)    == [t |-> "number", s |-> s, c |-> <<>>]
JBool(s)   == [t |-> "boolean", s |-> s, c |-> <<>>]
JObj(es)   == [t |-> "object", s |-> <<>>, c |-> es]
JArr(xs)   == [t |-> "array", s |-> <<>>,
               c |-> [i \in 1..Len(xs) |-> [k |-> <<>>, v |-> xs[i]]]]
P(k, v)    == [k |-> k, v |-> v]

\* src/lib/expand.ts:836  isJSONObject
isJSONObject(v) == v.t = "object"

\* value == null  (null or undefined)
isNullish(v) == v.t \in {"null", "undefined"}

\* src/lib/expand.ts:636  scalaTypes
scalaTypes == {"boolean", "number", "string"}

\* src/lib/expand.ts:161  containerTypes
containerTypes == {KwList, KwSet, KwLanguage, KwIndex, KwId, KwType}

\* property read json[k] on a tree mapping
TGet(json, k) ==
  IF \E i \in 1..Len(json.c) : json.c[i].k = k
  THEN json.c[CHOOSE i \in 1..Len(json.c) : json.c[i].k = k].v
  ELSE JUndefined

(***************************************************************************)
(* Contexts                                                                *)
(***************************************************************************)
\* src/lib/expand.ts:189  the keyword alias table, each keyword its own alias
JSONLDKWAliases ==
  [kw \in {KwId, KwType, KwContainer, KwSet, KwList, KwGraph} |-> kw]

\* src/lib/expand.ts:170  a term definition; type and container optional
JSONLDTypeDef(id) == [id |-> id, type |-> Undefined, container |-> Undefined]

EmptyMap == [x \in {} |-> 0]

\* src/lib/expand.ts:233  the context record.  aliases models the own
\* properties of the aliases Map object (what aliases[key] = value writes and
\* Object.hasOwn reads), amap the entries of that Map (what fromOthers
\* iterates and sets).  types maps a term to an index into defs, 0 standing
\* for a stored undefined; defs are the JSONLDTypeDef objects, so that two
\* terms may hold the same definition object.
JSONLDContext(url, iri, base, vocab, version, language, aliases, amap, kwaliases, types, defs) ==
  [url |-> url, iri |-> iri, base |-> base, vocab |-> vocab,
   version |-> version, language |-> language, aliases |-> aliases,
   amap |-> amap, kwaliases |-> kwaliases, types |-> types, defs |-> defs]

MapSet(m, k, v) == [x \in DOMAIN m \cup {k} |-> IF x = k THEN v ELSE m[x]]

\* a definition made with the term itself as its IRI
NewDefOfTerm(ctx, term, id) ==
  [ctx |-> [ctx EXCEPT !.defs = Append(@, JSONLDTypeDef(term)),
                       !.types = MapSet(@, term, Len(ctx.defs) + 1)],
   d |-> Len(ctx.defs) + 1, err |-> FALSE]

\* src/lib/expand.ts:255  getOrCreateTypeDef: the context with its memo table
\* updated, the index d of the definition returned (0: undefined), and err
\* when the call throws a TypeError (def.id of a stored undefined, line 297).
NewDef(ctx, term, id) ==
  [ctx |-> [ctx EXCEPT !.defs = Append(@, JSONLDTypeDef(id)),
                       !.types = MapSet(@, term, Len(ctx.defs) + 1)],
   d |-> Len(ctx.defs) + 1, err |-> FALSE]

getOrCreateTypeDef(ctx, termOrType) ==
  LET none == [ctx |-> ctx, d |-> 0, err |-> FALSE]
      with(match) ==
        IF termOrType \in DOMAIN ctx.types
          THEN [ctx |-> ctx, d |-> ctx.types[termOrType], err |-> FALSE]
        ELSE IF urlRe(termOrType)
          THEN NewDef(ctx, termOrType, termOrType)
        ELSE IF ~match.match /\ ctx.vocab # Undefined
          THEN IF (ctx.vocab \o termOrType) \in DOMAIN ctx.types
                 THEN [ctx |-> ctx, d |-> ctx.types[ctx.vocab \o termOrType],
                       err |-> FALSE]
                 ELSE NewDef(ctx, termOrType, ctx.vocab \o termOrType)
        ELSE IF ~match.match
          THEN none
        ELSE IF match.prefix \in DOMAIN ctx.aliases
          THEN NewDef(ctx, termOrType,
                      ctx.aliases[match.prefix] \o match.suffix)
        ELSE IF match.prefix \in DOMAIN ctx.types
          THEN IF ctx.types[match.prefix] = 0
                 THEN [ctx |-> ctx, d |-> 0, err |-> TRUE]
                 ELSE NewDef(ctx, termOrType,
                        ctx.defs[ctx.types[match.prefix]].id \o match.suffix)
        ELSE none
  IN  with(aliasRe(termOrType))

\* a JSON value read where the source expects a string (value as string)
asString(v) == IF v.t = "string" THEN v.s ELSE Undefined

Version11 == <<"1", ".", "1">>

\* src/lib/expand.ts:449-472  first loop of fromJSONObject: keyword aliases
\* and prefix aliases
RECURSIVE aliasPass(_, _, _)
aliasPass(entries, i, acc) ==
  IF i > Len(entries) THEN acc
  ELSE LET key   == entries[i].k
           value == entries[i].v
       IN  IF startsWithAt(key) \/ value.t # "string"
             THEN aliasPass(entries, i + 1, acc)
           ELSE IF value.s = KwContext
             THEN aliasPass(entries, i + 1, acc)
           ELSE IF startsWithAt(value.s)
             THEN IF value.s \notin DOMAIN acc.kwaliases
                    THEN aliasPass(entries, i + 1, acc)
                    ELSE aliasPass(entries, i + 1,
                           [acc EXCEPT !.kwaliases[value.s] = key])
           ELSE IF urlRe(value.s)
             THEN aliasPass(entries, i + 1,
                    [acc EXCEPT !.aliases = MapSet(@, key, value.s)])
           ELSE aliasPass(entries, i + 1, acc)

\* src/lib/expand.ts:486-505  second loop of fromJSONObject: the term
\* definitions.  ok is FALSE when the loop throws a TypeError (def.type = ...
\* on an undefined def, line 498, or getOrCreateTypeDef throwing).
RECURSIVE typePass(_, _, _)
typePass(entries, i, st) ==
  IF i > Len(entries) \/ ~st.ok THEN st
  ELSE LET key   == entries[i].k
           value == entries[i].v
           \* lines 487-490: a string value
           ofString(r) ==
             IF r.err THEN [ok |-> FALSE, ctx |-> r.ctx]
             ELSE typePass(entries, i + 1,
                    [ok |-> TRUE,
                     ctx |-> [r.ctx EXCEPT !.types = MapSet(@, key, r.d)]])
           \* lines 491-504: an object value
           typed(r) ==
             [r.ctx EXCEPT
                !.defs[r.d].type = asString(TGet(value, KwType)),
                !.defs[r.d].container = asString(TGet(value, KwContainer))]
           ofObject(termOrType, r) ==
             IF r.err \/ r.d = 0 THEN [ok |-> FALSE, ctx |-> r.ctx]
             ELSE typePass(entries, i + 1,
                    [ok |-> TRUE,
                     ctx |-> IF key # termOrType
                               THEN [typed(r) EXCEPT !.types =
                                       MapSet(@, key, r.d)]
                               ELSE typed(r)])
           ofTerm(termOrType) ==
             ofObject(termOrType, getOrCreateTypeDef(st.ctx, termOrType))
           idOr(idv) == IF isNullish(idv) THEN key ELSE idv.s
       IN  IF startsWithAt(key)
             THEN typePass(entries, i + 1, st)
           ELSE IF value.t = "string"
             THEN ofString(getOrCreateTypeDef(st.ctx, value.s))
           ELSE IF isJSONObject(value)
             THEN ofTerm(idOr(TGet(value, KwId)))
           ELSE typePass(entries, i + 1, st)

\* src/lib/expand.ts:404  fromJSONObject(json, url)
fromJSONObject(json, url) ==
  LET base     == IF TGet(json, KwBase).t = "string" /\ urlRe(TGet(json, KwBase).s)
                    THEN TGet(json, KwBase).s ELSE Undefined
      version  == IF TGet(json, KwVersion) = JNum(Version11)
                    THEN Version11 ELSE Undefined
      vocab    == IF TGet(json, KwVocab).t = "string" /\ urlRe(TGet(json, KwVocab).s)
                    THEN TGet(json, KwVocab).s ELSE Undefined
      language == IF TGet(json, KwLanguage).t = "string"
                       /\ Len(TGet(json, KwLanguage).s) > 0
                    THEN TGet(json, KwLanguage).s ELSE Undefined
      ctx(first) ==
        JSONLDContext(url, Undefined, base, vocab, version, language,
                      first.aliases, EmptyMap, first.kwaliases, EmptyMap, <<>>)
  IN  typePass(json.c, 1,
        [ok |-> TRUE,
         ctx |-> ctx(aliasPass(json.c, 1, [kwaliases |-> JSONLDKWAliases,
                                           aliases |-> EmptyMap]))])

\* src/lib/expand.ts:510  JSONLDContext.null(url)
nullContext(url) ==
  JSONLDContext(url, Undefined, Undefined, Undefined, Undefined, Undefined,
                EmptyMap, EmptyMap, JSONLDKWAliases, EmptyMap, <<>>)

\* src/lib/expand.ts:374-376  the keyword alias loop of fromOthers: it walks
\* the entries of the merged table itself, never those of the listed context
mergeKwaliases(kwaliases, other) ==
  [key \in DOMAIN kwaliases |->
     IF kwaliases[key] = key THEN kwaliases[key] ELSE kwaliases[key]]

\* src/lib/expand.ts:378-382  the prefix alias loop of fromOthers, over the
\* entries of the listed context's aliases Map
mergeAliases(amap, other) ==
  [key \in DOMAIN amap \cup DOMAIN other.amap |->
     IF key \in DOMAIN amap THEN amap[key] ELSE other.amap[key]]

\* src/lib/expand.ts:384-388  the term table loop of fromOthers; the
\* definition objects of the listed context are shared, here appended
mergeTypes(acc, other) ==
  LET off == Len(acc.defs)
  IN  [acc EXCEPT
         !.defs  = @ \o other.defs,
         !.types = [key \in DOMAIN acc.types \cup DOMAIN other.types |->
                      IF key \in DOMAIN acc.types THEN acc.types[key]
                      ELSE IF other.types[key] = 0 THEN 0
                      ELSE other.types[key] + off]]

\* b ?? a: the later value wins
orElseLast(a, b) == IF b # Undefined THEN b ELSE a

\* a ?? b on optional strings
orElse(a, b) == IF a # Undefined THEN a ELSE b

\* src/lib/expand.ts:364-389  one iteration of the loop of fromOthers;
\* other is <<>> for a null entry and <<context>> otherwise
mergeOne(acc, other) ==
  IF other = <<>> THEN acc
  ELSE LET o == other[1]
       IN  mergeTypes(
             [acc EXCEPT !.base      = orElse(@, o.base),
                         !.version   = orElse(@, o.version),
                         !.vocab     = orElse(@, o.vocab),
                         !.language  = orElse(@, o.language),
                         !.kwaliases = mergeKwaliases(@, o),
                         !.amap      = mergeAliases(@, o)], o)

RECURSIVE mergeAll(_, _, _)
mergeAll(acc, others, i) ==
  IF i > Len(others) THEN acc
  ELSE mergeAll(mergeOne(acc, others[i]), others, i + 1)

\* src/lib/expand.ts:351  fromOthers(iri, source, others)
fromOthers(iri, url, others) ==
  mergeAll(JSONLDContext(url, iri, Undefined, Undefined, Undefined, Undefined,
                         EmptyMap, EmptyMap, JSONLDKWAliases, EmptyMap, <<>>),
           others, 1)

\* the definition a term table holds for a term: <<>> for a stored undefined
TypeOf(ctx, term) ==
  IF ctx.types[term] = 0 THEN <<>> ELSE <<ctx.defs[ctx.types[term]]>>

(***************************************************************************)
(* The document being expanded: a heap of objects and arrays, because      *)
(* expand rewrites its input in place and holds references to its parts.   *)
(***************************************************************************)
HNull      == [t |-> "null", s |-> <<>>, r |-> 0]
HUndefined == [t |-> "undefined", s |-> <<>>, r |-> 0]
HStr(s)    == [t |-> "string", s |-> s, r |-> 0]
HRef(r)    == [t |-> "ref", s |-> <<>>, r |-> r]

isRef(v)       == v.t = "ref"
isArrayIn(h, v) == v.t = "ref" /\ h[v.r].arr
isObjectIn(h, v) == v.t = "ref" /\ ~h[v.r].arr

RECURSIVE Load(_, _)
RECURSIVE LoadEntries(_, _, _, _)
\* the heap holding a JSON tree: the heap extended, and the value
Load(h, tv) ==
  IF tv.t \notin {"object", "array"}
    THEN [h |-> h, v |-> [t |-> tv.t, s |-> tv.s, r |-> 0]]
    ELSE LET x == LoadEntries(h, tv.c, 1, <<>>)
         IN  [h |-> Append(x.h, [arr |-> tv.t = "array", e |-> x.e]),
              v |-> HRef(Len(x.h) + 1)]
LoadEntries(h, c, i, acc) ==
  IF i > Len(c) THEN [h |-> h, e |-> acc]
  ELSE LET x == Load(h, c[i].v)
       IN  LoadEntries(x.h, c, i + 1, Append(acc, [k |-> c[i].k, v |-> x.v]))

RECURSIVE Tree(_, _)
\* the JSON tree a heap value stands for
Tree(h, v) ==
  IF v.t # "ref" THEN [t |-> v.t, s |-> v.s, c |-> <<>>]
  ELSE [t |-> IF h[v.r].arr THEN "array" ELSE "object", s |-> <<>>,
        c |-> [i \in 1..Len(h[v.r].e) |->
                 [k |-> h[v.r].e[i].k, v |-> Tree(h, h[v.r].e[i].v)]]]

\* obj[k]
HGet(cell, k) ==
  IF \E i \in 1..Len(cell.e) : cell.e[i].k = k
  THEN cell.e[CHOOSE i \in 1..Len(cell.e) : cell.e[i].k = k].v
  ELSE HUndefined

HHas(cell, k) == \E i \in 1..Len(cell.e) : cell.e[i].k = k

\* obj[k] = v
HSet(cell, k, v) ==
  IF HHas(cell, k)
  THEN [cell EXCEPT !.e = [i \in 1..Len(cell.e) |->
                             IF cell.e[i].k = k THEN [k |-> k, v |-> v]
                             ELSE cell.e[i]]]
  ELSE [cell EXCEPT !.e = Append(@, [k |-> k, v |-> v])]

RECURSIVE Without(_, _)
Without(e, k) ==
  IF e = <<>> THEN <<>>
  ELSE IF Head(e).k = k THEN Without(Tail(e), k)
  ELSE <<Head(e)>> \o Without(Tail(e), k)

\* delete obj[k]
HDel(cell, k) == [cell EXCEPT !.e = Without(@, k)]

\* arr.push(v)
HPush(cell, v) == [cell EXCEPT !.e = Append(@, [k |-> <<>>, v |-> v])]

Items(xs) == [i \in 1..Len(xs) |-> [k |-> <<>>, v |-> xs[i]]]

\* the fold that leaves the original key in place
promoteKeepsKey(h, o, key, v, oldKey) ==
  LET cur == HGet(h[o], key)
  IN  IF isArrayIn(h, cur)
        THEN [h EXCEPT ![cur.r] = HPush(@, v)]
      ELSE IF ~isNullish(cur)
        THEN [Append(h, [arr |-> TRUE, e |-> Items(<<cur, v>>)])
                EXCEPT ![o] = HSet(@, key, HRef(Len(h) + 1))]
      ELSE [h EXCEPT ![o] = HSet(@, key, v)]

\* the fold that sets an absent key to a one-element array
promoteWraps(h, o, key, v, oldKey) ==
  LET cur == HGet(h[o], key)
      h1  == IF isArrayIn(h, cur)
               THEN [h EXCEPT ![cur.r] = HPush(@, v)]
             ELSE [Append(h, [arr |-> TRUE,
                              e |-> IF isNullish(cur) THEN Items(<<v>>)
                                    ELSE Items(<<cur, v>>)])
                     EXCEPT ![o] = HSet(@, key, HRef(Len(h) + 1))]
  IN  [h1 EXCEPT ![o] = HDel(@, oldKey)]

\* the fold that overwrites what the resolved key holds
promoteReplaces(h, o, key, v, oldKey) ==
  [h EXCEPT ![o] = HDel(HSet(@, key, v), oldKey)]

\* src/lib/expand.ts:728-742 and 783-796  the fold of a value v under the
\* resolved key of the mapping o, and the removal of the original key
promote(h, o, key, v, oldKey) ==
  LET cur == HGet(h[o], key)
      h1  == IF isArrayIn(h, cur)
               THEN [h EXCEPT ![cur.r] = HPush(@, v)]
             ELSE IF ~isNullish(cur)
               THEN [Append(h, [arr |-> TRUE, e |-> Items(<<cur, v>>)])
                       EXCEPT ![o] = HSet(@, key, HRef(Len(h) + 1))]
             ELSE [h EXCEPT ![o] = HSet(@, key, v)]
  IN  [h1 EXCEPT ![o] = HDel(@, oldKey)]

\* the definitions resolved for the elements of an array, in order: the
\* context with its memo table, the ids found, err for a TypeError
RECURSIVE resolveEach(_, _, _, _)
resolveEach(ctx, e, i, acc) ==
  IF i > Len(e) THEN [ctx |-> ctx, ids |-> acc, err |-> FALSE]
  ELSE LET with(r) ==
             IF r.err THEN [ctx |-> r.ctx, ids |-> acc, err |-> TRUE]
             ELSE resolveEach(r.ctx, e, i + 1,
                    IF r.d = 0 THEN acc ELSE Append(acc, r.ctx.defs[r.d].id))
       IN  with(getOrCreateTypeDef(ctx, e[i].v.s))

\* src/lib/expand.ts:305  expandTypes on the context ctx: the heap and the
\* context after the call, the value returned, err for a TypeError
expandTypes(h, ctx, v) ==
  LET one(r) ==
        [h |-> h, ctx |-> r.ctx, err |-> r.err,
         out |-> IF r.d = 0 THEN HUndefined ELSE HStr(r.ctx.defs[r.d].id)]
      many(r) ==
        IF r.err \/ r.ids = <<>>
          THEN [h |-> h, ctx |-> r.ctx, out |-> HUndefined, err |-> r.err]
          ELSE [h |-> Append(h, [arr |-> TRUE,
                       e |-> Items([i \in 1..Len(r.ids) |-> HStr(r.ids[i])])]),
                ctx |-> r.ctx, out |-> HRef(Len(h) + 1), err |-> FALSE]
  IN  IF isNullish(v)
        THEN [h |-> h, ctx |-> ctx, out |-> HUndefined, err |-> FALSE]
      ELSE IF v.t = "string"
        THEN one(getOrCreateTypeDef(ctx, v.s))
      ELSE IF isArrayIn(h, v)
        THEN many(resolveEach(ctx, h[v.r].e, 1, <<>>))
      ELSE [h |-> h, ctx |-> ctx, out |-> HUndefined, err |-> FALSE]

\* the objects { '@id': id } of a list of ids, allocated in order
IRIObjects(ids) ==
  [i \in 1..Len(ids) |-> [arr |-> FALSE, e |-> <<[k |-> KwId, v |-> HStr(ids[i])]>>]]

\* src/lib/expand.ts:325  expandIRIs
expandIRIs(h, ctx, v) ==
  LET one(r) ==
        IF r.err \/ r.d = 0
          THEN [h |-> h, ctx |-> r.ctx, out |-> HUndefined, err |-> r.err]
          ELSE [h |-> h \o IRIObjects(<<r.ctx.defs[r.d].id>>),
                ctx |-> r.ctx, out |-> HRef(Len(h) + 1), err |-> FALSE]
      many(r) ==
        IF r.err
          THEN [h |-> h, ctx |-> r.ctx, out |-> HUndefined, err |-> TRUE]
          ELSE [h |-> Append(h \o IRIObjects(r.ids),
                       [arr |-> TRUE,
                        e |-> Items([i \in 1..Len(r.ids) |->
                                       HRef(Len(h) + i)])]),
                ctx |-> r.ctx, out |-> HRef(Len(h) + Len(r.ids) + 1),
                err |-> FALSE]
  IN  IF isNullish(v)
        THEN [h |-> h, ctx |-> ctx, out |-> HUndefined, err |-> FALSE]
      ELSE IF v.t = "string"
        THEN one(getOrCreateTypeDef(ctx, v.s))
      ELSE many(resolveEach(ctx, IF isArrayIn(h, v) THEN h[v.r].e ELSE <<>>,
                            1, <<>>))

(***************************************************************************)
(* The context bag, the fetcher and the promises of fetch and resolve      *)
(***************************************************************************)
\* src/lib/expand.ts:544  the only Content-Type accepted
LdJson == "application/ld+json"

Scheme == <<"h", ":", "/", "/">>
Url(host, path) == Scheme \o host \o <<".", "/">> \o path

VocabA == Url(<<"a">>, <<>>)
VocabB == Url(<<"b">>, <<>>)
PrefS  == Url(<<"s">>, <<>>)
U0     == Url(<<"u">>, <<"0">>)
U1     == Url(<<"u">>, <<"1">>)
U2     == Url(<<"u">>, <<"2">>)
U3     == Url(<<"u">>, <<"3">>)
U4     == Url(<<"u">>, <<"4">>)
U5     == Url(<<"u">>, <<"5">>)
U6     == Url(<<"u">>, <<"6">>)
U7     == Url(<<"u">>, <<"7">>)
U8     == Url(<<"u">>, <<"8">>)
U9     == Url(<<"u">>, <<"9">>)
USelf  == Url(<<"u">>, <<"s">>)

Response(ok, ctype, json) == [ok |-> ok, ctype |-> ctype, json |-> json]

\* The remote documents the fetcher serves, after the fixtures of
\* src/unnamed/part_002 (/context and /context2) with the other shapes of
\* @context: a string, null, a list with a number, a list naming the
\* document with that list; U5 answers 404, U8 answers with a parameter on
\* its Content-Type, the body of U9 is an array.  U0 sets a vocabulary and
\* defines the term s of U1 otherwise; the list of U2 names both.  The
\* @context of USelf is the URL of USelf.
Remote ==
  (U0 :> Response(TRUE, LdJson,
           JObj(<<P(KwContext, JObj(<<P(KwVocab, JStr(VocabA)),
                                      P(<<"s">>, JStr(Url(<<"o">>, <<"x">>)))>>))>>)))
  @@ (U1 :> Response(TRUE, LdJson,
           JObj(<<P(KwId, JStr(U1)),
                  P(KwContext, JObj(<<P(<<"s">>, JStr(PrefS))>>))>>)))
  @@ (U2 :> Response(TRUE, LdJson,
           JObj(<<P(KwId, JStr(U2)),
                  P(KwContext, JArr(<<JStr(U1), JStr(U0),
                                      JObj(<<P(KwVocab, JStr(VocabB))>>)>>))>>)))
  @@ (U3 :> Response(TRUE, LdJson, JObj(<<P(KwContext, JStr(U1))>>)))
  @@ (U4 :> Response(TRUE, LdJson, JObj(<<P(KwContext, JNull)>>)))
  @@ (U5 :> Response(FALSE, "text/html", JNull))
  @@ (U6 :> Response(TRUE, LdJson,
           JObj(<<P(KwContext, JArr(<<JStr(U1), JNum(<<"4", "2">>)>>))>>)))
  @@ (U7 :> Response(TRUE, LdJson,
           JObj(<<P(KwContext, JArr(<<JStr(U6), JStr(U1)>>))>>)))
  @@ (U8 :> Response(TRUE, "application/ld+json; charset=utf-8",
           JObj(<<P(KwContext, JObj(<<P(KwVocab, JStr(VocabB))>>))>>)))
  @@ (U9 :> Response(TRUE, LdJson, JArr(<<JStr(U1)>>)))
  @@ (USelf :> Response(TRUE, LdJson, JObj(<<P(KwContext, JStr(USelf))>>)))

Urls == DOMAIN Remote

\* src/lib/expand.ts:114-132  the constructor of JSONLDContextBag: contexts
\* is the map given (empty when none is), cacheMethod <<>> when none is
\* given; seeded records that the map given held contexts
JSONLDContextBag(contexts, cacheMethod) ==
  [contexts |-> contexts,
   cacheMethod |-> IF cacheMethod = <<>> THEN "dont-cache" ELSE cacheMethod[1],
   seeded |-> contexts # EmptyMap]

\* the state the promises run on
Sys(c, b, t, f) == [ctxs |-> c, bag |-> b, tasks |-> t, hits |-> f]

\* a set that stores whatever the cacheMethod
bagSetAlways(S, i) ==
  IF S.ctxs[i].url = Undefined
  THEN S
  ELSE [S EXCEPT !.bag.contexts = MapSet(@, S.ctxs[i].url, i)]

\* src/lib/expand.ts:142  JSONLDContextBag.set, for the context ctxs[i]
bagSet(S, i) ==
  IF S.bag.cacheMethod = "dont-cache" \/ S.ctxs[i].url = Undefined
  THEN S
  ELSE [S EXCEPT !.bag.contexts = MapSet(@, S.ctxs[i].url, i)]

\* a promise: st is "wait" while the fetcher's response is outstanding,
\* "chain" while it adopts the promise kids[1], "join" while it awaits
\* Promise.all of kids, then "done" (res: the context, 0 for undefined) or
\* "fail" (err: the error thrown).  cached marks a result read from the bag.
Task(iri, st, res, kids, url, call, cached) ==
  [iri |-> iri, st |-> st, res |-> res, err |-> "", kids |-> kids,
   url |-> url, call |-> call, cached |-> cached]

Kid(task, ctx) == [task |-> task, ctx |-> ctx]

\* src/lib/expand.ts:524-535  fetch up to its first await: the cache fast
\* path, or the call of the fetcher
fetchStart(S, iri, call) ==
  IF iri \in DOMAIN S.bag.contexts
  THEN [S EXCEPT !.tasks = Append(@, Task(iri, "done", S.bag.contexts[iri],
                                          <<>>, Undefined, call, TRUE))]
  ELSE [S EXCEPT !.tasks = Append(@, Task(iri, "wait", 0, <<>>, Undefined,
                                          call, FALSE)),
                 !.hits  = Append(@, [url |-> iri, call |-> call])]

\* the loop of resolve passing over an element that is neither a string nor
\* an object
RECURSIVE listStartSkips(_, _, _, _, _)
listStartSkips(S, c, i, kids, call) ==
  IF i > Len(c) THEN [S |-> S, kind |-> "kids", kids |-> kids, err |-> ""]
  ELSE IF c[i].v.t = "string"
    THEN LET S1 == fetchStart(S, c[i].v.s, call)
         IN  listStartSkips(S1, c, i + 1, Append(kids, Kid(Len(S1.tasks), 0)),
                            call)
  ELSE IF isJSONObject(c[i].v)
    THEN LET with(r) ==
               IF ~r.ok
                 THEN [S |-> S, kind |-> "throw", kids |-> kids,
                       err |-> "TypeError"]
                 ELSE listStartSkips([S EXCEPT !.ctxs = Append(@, r.ctx)], c,
                        i + 1, Append(kids, Kid(0, Len(S.ctxs) + 1)), call)
         IN  with(fromJSONObject(c[i].v, Undefined))
  ELSE listStartSkips(S, c, i + 1, kids, call)

\* src/lib/expand.ts:586-599  the loop of resolve over a context list: kind
\* "throw" with the error, or "kids" with the promises pushed
RECURSIVE listStart(_, _, _, _, _)
listStart(S, c, i, kids, call) ==
  IF i > Len(c) THEN [S |-> S, kind |-> "kids", kids |-> kids, err |-> ""]
  ELSE IF c[i].v.t = "string"
    THEN LET S1 == fetchStart(S, c[i].v.s, call)
         IN  listStart(S1, c, i + 1, Append(kids, Kid(Len(S1.tasks), 0)), call)
  ELSE IF isJSONObject(c[i].v)
    THEN LET with(r) ==
               IF ~r.ok
                 THEN [S |-> S, kind |-> "throw", kids |-> kids,
                       err |-> "TypeError"]
                 ELSE listStart([S EXCEPT !.ctxs = Append(@, r.ctx)], c, i + 1,
                                Append(kids, Kid(0, Len(S.ctxs) + 1)), call)
         IN  with(fromJSONObject(c[i].v, Undefined))
  ELSE [S |-> S, kind |-> "throw", kids |-> kids,
        err |-> "Invalid JSON-LD @context provided"]

Outcome(S, kind, res, err, t) ==
  [S |-> S, kind |-> kind, res |-> res, err |-> err, t |-> t]

\* src/lib/expand.ts:562  resolve up to its first await, for the @context
\* value contextJSON of a source with the given url: kind "value" with the
\* context res (0: undefined), "throw" with err, or "task" with the promise t
resolveStart(S, url, contextJSON, call) ==
  LET ofObject(r) ==
        IF ~r.ok THEN Outcome(S, "throw", 0, "TypeError", 0)
        ELSE Outcome(bagSet([S EXCEPT !.ctxs = Append(@, r.ctx)],
                            Len(S.ctxs) + 1),
                     "value", Len(S.ctxs) + 1, "", 0)
      ofString(S1) == Outcome(S1, "task", 0, "", Len(S1.tasks))
      ofList(l) ==
        IF l.kind = "throw" THEN Outcome(l.S, "throw", 0, l.err, 0)
        ELSE Outcome([l.S EXCEPT !.tasks =
                         Append(@, Task(Undefined, "join", 0, l.kids, url,
                                        call, FALSE))],
                     "task", 0, "", Len(l.S.tasks) + 1)
  IN  IF isJSONObject(contextJSON)
        THEN ofObject(fromJSONObject(contextJSON, url))
      ELSE IF contextJSON.t = "null"
        THEN Outcome(bagSet([S EXCEPT !.ctxs = Append(@, nullContext(url))],
                            Len(S.ctxs) + 1),
                     "value", Len(S.ctxs) + 1, "", 0)
      ELSE IF contextJSON.t = "string"
        THEN ofString(fetchStart(S, contextJSON.s, call))
      ELSE IF contextJSON.t # "array"
        THEN Outcome(S, "value", 0, "", 0)
      ELSE ofList(listStart(S, contextJSON.c, 1, <<>>, call))

\* a fetch that looks at the status of the response only
UnusableStatusOnly(resp) == ~resp.ok

\* src/lib/expand.ts:537-553  the responses fetch returns undefined for
Unusable(resp) ==
  ~resp.ok \/ resp.ctype # LdJson \/ ~isJSONObject(resp.json)

\* src/lib/expand.ts:537-559  fetch after the fetcher's response
respond(S, t) ==
  LET resp == Remote[S.tasks[t].iri]
      with(o) ==
        CASE o.kind = "value" ->
               [o.S EXCEPT !.tasks[t].st = "done", !.tasks[t].res = o.res]
          [] o.kind = "throw" ->
               [o.S EXCEPT !.tasks[t].st = "fail", !.tasks[t].err = o.err]
          [] o.kind = "task" ->
               [o.S EXCEPT !.tasks[t].st = "chain",
                           !.tasks[t].kids = <<Kid(o.t, 0)>>]
  IN  IF Unusable(resp)
        THEN [S EXCEPT !.tasks[t].st = "done", !.tasks[t].res = 0]
      ELSE with(resolveStart(S, S.tasks[t].iri, TGet(resp.json, KwContext),
                             S.tasks[t].call))

kidSettled(S, k) == IF k.task = 0 THEN TRUE ELSE S.tasks[k.task].st = "done"
kidFailed(S, k)  == IF k.task = 0 THEN FALSE ELSE S.tasks[k.task].st = "fail"
kidResult(S, k)  == IF k.task = 0 THEN k.ctx ELSE S.tasks[k.task].res

\* the contexts the promises kids have returned, in the order in which they
\* were made
RECURSIVE byCompletion(_, _)
byCompletion(S, made) ==
  IF made = {} THEN <<>>
  ELSE LET first == CHOOSE c \in made : \A d \in made : c <= d
       IN  <<<<S.ctxs[first]>>>> \o byCompletion(S, made \ {first})

\* a merge of the listed contexts in the order in which they completed
joinDoneByCompletion(S, t) ==
  LET kids   == S.tasks[t].kids
      others == byCompletion(S, {kidResult(S, kids[i]) : i \in 1..Len(kids)}
                                  \ {0})
      ctx    == fromOthers(Undefined, S.tasks[t].url, others)
      S1     == bagSet([S EXCEPT !.ctxs = Append(@, ctx)], Len(S.ctxs) + 1)
  IN  [S1 EXCEPT !.tasks[t].st = "done", !.tasks[t].res = Len(S.ctxs) + 1]

\* src/lib/expand.ts:601-606  resolve after Promise.all: the merge of the
\* listed contexts in list order
joinDone(S, t) ==
  LET kids   == S.tasks[t].kids
      others == [i \in 1..Len(kids) |->
                   IF kidResult(S, kids[i]) = 0 THEN <<>>
                   ELSE <<S.ctxs[kidResult(S, kids[i])]>>]
      ctx    == fromOthers(Undefined, S.tasks[t].url, others)
      S1     == bagSet([S EXCEPT !.ctxs = Append(@, ctx)], Len(S.ctxs) + 1)
  IN  [S1 EXCEPT !.tasks[t].st = "done", !.tasks[t].res = Len(S.ctxs) + 1]


(***************************************************************************)
(* State                                                                   *)
(***************************************************************************)
VARIABLES
  heap,      \* the objects and arrays of the document given to expand
  stack,     \* the traversal nodes from the root to the current node
  pc,        \* where expand is: "top", "await", "done", "raised", "idle"
  awaiting,  \* the promise expand awaits while pc = "await"
  error,     \* the error expand raised
  ctxs,      \* the JSONLDContext objects created so far
  bag,       \* the JSONLDContextBag: contexts and cacheMethod
  tasks,     \* the promises of fetch and resolve
  hits,      \* the calls of the fetcher, in order
  calls,     \* the calls of JSONLDContext.fetch made by the caller
  visited    \* the nodes expand has finished, in order

vars == <<heap, stack, pc, awaiting, error, ctxs, bag, tasks, hits, calls,
          visited>>

SNow == Sys(ctxs, bag, tasks, hits)

\* a traversal node made with the container tag of a list
NodeListed(value, isArray, children, termOrType, type, context) ==
  [value |-> value, isArray |-> isArray, children |-> children, index |-> 0,
   termOrType |-> termOrType, type |-> type, container |-> KwList,
   context |-> context, own |-> JUndefined, resolved |-> <<>>]

\* src/lib/expand.ts:610-633  a traversal node; its parent is the node below
\* it on the stack.  own records the @context the node carried, if any, and
\* resolved the IRI each child passed so far resolved to (<<>>: none).
Node(value, isArray, children, termOrType, type, context) ==
  [value |-> value, isArray |-> isArray, children |-> children, index |-> 0,
   termOrType |-> termOrType, type |-> type, container |-> Undefined,
   context |-> context, own |-> JUndefined, resolved |-> <<>>]

Top(st) == st[Len(st)]
SetTop(st, nd) == [st EXCEPT ![Len(st)] = nd]

\* node.children: Object.entries taken when the node was created, or the
\* array itself (a node keeps the elements the array had when the node was
\* created, and reads the array as it is)
Children(h, nd) == IF nd.isArray THEN h[nd.value.r].e ELSE nd.children

\* src/lib/expand.ts:687-702  the context of the current node at the top of
\* an iteration, or at the return of the awaited resolve: kind "ok" with the
\* heap, stack and promises after it, "task" when resolve has to be awaited,
\* "throw" when it threw, "blocked" while the awaited promise is unsettled
Established(S, h, st, c, own) ==
  [kind |-> "ok", S |-> S,
   h |-> [h EXCEPT ![Top(st).value.r] = HDel(@, KwContext)],
   st |-> SetTop(st, [Top(st) EXCEPT !.context = c, !.own = own]),
   err |-> "", t |-> 0]

\* a node that takes no context at all from its parent
InheritedNone(st) == 0

\* src/lib/expand.ts:699-702  node.context = node.parent.context
Inherited(st) == st[Len(st) - 1].context

Entered ==
  LET nd   == Top(stack)
      same == [kind |-> "ok", S |-> SNow, h |-> heap, st |-> stack,
               err |-> "", t |-> 0]
      cj   == Tree(heap, HGet(heap[nd.value.r], KwContext))
      with(o) ==
        CASE o.kind = "value" -> Established(o.S, heap, stack, o.res, cj)
          [] o.kind = "throw" ->
               [same EXCEPT !.kind = "throw", !.S = o.S, !.err = o.err]
          [] o.kind = "task" ->
               [same EXCEPT !.kind = "task", !.S = o.S, !.t = o.t]
  IN  IF pc = "await"
        THEN IF tasks[awaiting].st = "done"
               THEN Established(SNow, heap, stack, tasks[awaiting].res, cj)
             ELSE IF tasks[awaiting].st = "fail"
               THEN [same EXCEPT !.kind = "throw", !.err = tasks[awaiting].err]
             ELSE [same EXCEPT !.kind = "blocked"]
      ELSE IF nd.index = 0 /\ ~nd.isArray
              /\ HGet(heap[nd.value.r], KwContext).t # "undefined"
        THEN with(resolveStart(SNow, Undefined, cj, 0))
      ELSE IF nd.index = 0 /\ Len(stack) > 1
        THEN [same EXCEPT !.st = SetTop(stack,
                [nd EXCEPT !.context = Inherited(stack)])]
      ELSE same

\* src/lib/expand.ts:708-721  the @id and @type values of a finished node:
\* a is the heap and context so far, alias the key read, kw the key written
expandKeyword(a, nd, alias, kw) ==
  LET set(r) ==
        [h |-> [r.h EXCEPT ![nd.value.r] = HSet(@, kw, r.out)], ctx |-> r.ctx,
         err |-> r.err]
  IN  IF a.err \/ nd.isArray \/ nd.context = 0
           \/ isNullish(HGet(a.h[nd.value.r], alias))
        THEN a
        ELSE set(expandTypes(a.h, a.ctx, HGet(a.h[nd.value.r], alias)))

\* src/lib/expand.ts:708-751  the current node is finished and popped
Finished(E) ==
  LET nd   == Top(E.st)
      c    == nd.context
      ctx0 == IF c = 0 THEN nullContext(Undefined) ELSE E.S.ctxs[c]
      \* src/lib/expand.ts:723-726  the container wrapper
      wrap == nd.container \in containerTypes
      wrapped(h) ==
        IF wrap
          THEN Append(h, [arr |-> FALSE,
                          e |-> <<[k |-> nd.container, v |-> nd.value]>>])
          ELSE h
      \* src/lib/expand.ts:728-742  the fold into the parent
      folded(h) ==
        IF Len(E.st) > 1 /\ nd.type # Undefined /\ nd.type # nd.termOrType
          THEN promote(wrapped(h), E.st[Len(E.st) - 1].value.r, nd.type,
                       IF wrap THEN HRef(Len(h) + 1) ELSE nd.value,
                       nd.termOrType)
          ELSE wrapped(h)
      with(b) ==
        [err |-> b.err, h |-> folded(b.h),
         ctxs |-> IF c = 0 THEN E.S.ctxs ELSE [E.S.ctxs EXCEPT ![c] = b.ctx],
         st |-> SubSeq(E.st, 1, Len(E.st) - 1),
         seen |-> [cell |-> nd.value.r, isArray |-> nd.isArray,
                   children |-> nd.children, context |-> c, own |-> nd.own,
                   container |-> nd.container, depth |-> Len(E.st),
                   resolved |-> nd.resolved,
                   up |-> IF Len(E.st) > 1 THEN E.st[Len(E.st) - 1].context ELSE 0]]
  IN  with(expandKeyword(
             expandKeyword([h |-> E.h, ctx |-> ctx0, err |-> FALSE], nd,
                           ctx0.kwaliases[KwId], KwId),
             nd, ctx0.kwaliases[KwType], KwType))

\* src/lib/expand.ts:753-779  the next child of the current node: its key,
\* the definition and IRI the key resolves to, and its value, expanded as an
\* IRI reference when the definition has type @id
Selected(E) ==
  LET nd   == Top(E.st)
      c    == nd.context
      kid  == Children(E.h, nd)[nd.index + 1]
      none == [ctx |-> IF c = 0 THEN nullContext(Undefined) ELSE E.S.ctxs[c],
               d |-> 0, err |-> FALSE]
      def(r)     == IF r.d = 0 THEN JSONLDTypeDef(Undefined)
                    ELSE r.ctx.defs[r.d]
      asValue(r) == r.d # 0 /\ def(r).type = KwId
      out(r, x) ==
        [keyword |-> ~nd.isArray /\ startsWithAt(kid.k),
         termOrType |-> IF nd.isArray THEN Undefined ELSE kid.k,
         type |-> def(r).id, asValue |-> asValue(r), value |-> x.out,
         err |-> x.err, h |-> x.h,
         ctxs |-> IF c = 0 THEN E.S.ctxs ELSE [E.S.ctxs EXCEPT ![c] = x.ctx]]
      with(r) ==
        out(r, IF asValue(r) /\ ~r.err THEN expandIRIs(E.h, r.ctx, kid.v)
               ELSE [h |-> E.h, ctx |-> r.ctx, out |-> kid.v, err |-> r.err])
  IN  with(IF nd.isArray \/ c = 0 THEN none
           ELSE getOrCreateTypeDef(E.S.ctxs[c], kid.k))

Advance(st, type) ==
  SetTop(st, [Top(st) EXCEPT !.index = @ + 1, !.resolved = Append(@, type)])

HasChild(E) == Top(E.st).index < Len(Children(E.h, Top(E.st)))

Running == pc \in {"top", "await"}

(***************************************************************************)
(* Inputs                                                                  *)
(***************************************************************************)
MaxEntries == 2

TermN     == <<"n">>
TermM     == <<"m">>
TermC     == <<"c">>
TermS     == <<"s">>
TermId    == <<"i", "d">>
CompactSX == <<"s", ":", "x">>
CompactQX == <<"q", ":", "x">>
AbsN      == VocabA \o TermN
TypedIri  == Url(<<"t">>, <<"c">>)
OtherIri  == Url(<<"o">>, <<"x">>)
PlainV    == <<"v">>

\* the README's contexts (a vocabulary, with a keyword alias for @id)
CtxVocab  == JObj(<<P(KwVocab, JStr(VocabA))>>)
CtxVocabB == JObj(<<P(KwVocab, JStr(VocabB))>>)
CtxAlias  == JObj(<<P(TermId, JStr(KwId)), P(KwVocab, JStr(VocabA))>>)
\* the context of src/test/context.object.test.ts: a prefix, an IRI-typed
\* term, a term declared with a container
CtxStore  == JObj(<<P(TermS, JStr(PrefS)),
                    P(TermC, JObj(<<P(KwId, JStr(TypedIri)),
                                    P(KwType, JStr(KwId))>>)),
                    P(TermN, JObj(<<P(KwId, JStr(Url(<<"t">>, <<"n">>))),
                                    P(KwContainer, JStr(KwList))>>))>>)
\* a prefix, and a compact IRI of that prefix defined as a term of its own
CtxShadow == JObj(<<P(TermS, JStr(PrefS)), P(CompactSX, JStr(OtherIri))>>)
CtxEmpty  == JObj(<<>>)
\* an object-valued term whose @id cannot be resolved
CtxBadTerm == JObj(<<P(<<"d">>, JObj(<<P(KwId, JStr(<<"q", ":", "z">>))>>))>>)
\* a term whose string value cannot be resolved
CtxPoison == JObj(<<P(<<"q">>, JStr(<<"z", "z">>))>>)

\* the values of @context that make resolve call the fetcher
RemoteContexts ==
  {JStr(U1), JStr(U2), JStr(U3), JStr(U5), JStr(U6), JStr(U7),
   JArr(<<JStr(U1), CtxVocabB>>), JArr(<<JStr(U1), JNum(<<"4", "2">>)>>)}

\* the values of @context the documents carry; JUndefined: no @context
DocContexts ==
  {JUndefined, JNull, CtxVocab, CtxAlias, CtxStore, CtxShadow, CtxEmpty,
   CtxBadTerm, CtxPoison, JNum(<<"7">>)} \cup RemoteContexts

\* the entries the documents are made of
DocEntries ==
  {P(TermN, JStr(PlainV)),
   P(TermN, JObj(<<P(TermN, JStr(PlainV))>>)),
   P(TermN, JObj(<<P(KwContext, CtxVocabB), P(TermM, JStr(PlainV))>>)),
   P(TermM, JNum(<<"7">>)),
   P(CompactSX, JStr(PlainV)),
   P(CompactQX, JStr(PlainV)),
   P(TermId, JStr(OtherIri)),
   P(TermC, JStr(CompactSX)),
   P(TermC, JArr(<<JStr(CompactSX), JStr(CompactQX)>>)),
   P(TermC, JNum(<<"7">>)),
   P(AbsN, JStr(<<"w">>)),
   P(AbsN, JArr(<<JStr(<<"w">>)>>)),
   P(TypedIri, JStr(CompactSX)),
   P(KwId, JStr(CompactSX)),
   P(KwType, JStr(TermN)),
   P(KwGraph, JObj(<<P(KwContext, CtxVocabB), P(TermM, JStr(PlainV))>>)),
   P(TermN, JArr(<<JObj(<<P(TermM, JStr(PlainV))>>)>>)),
   P(TermM, JObj(<<P(KwContext, CtxVocabB), P(CompactSX, JStr(PlainV))>>))}

RECURSIVE EntrySeqs(_)
\* the sequences of at most n entries with distinct keys
EntrySeqs(n) ==
  IF n = 0 THEN {<<>>}
  ELSE LET shorter == EntrySeqs(n - 1)
       IN  shorter \cup
           {Append(es, e) : <<es, e>> \in
              {x \in shorter \X DocEntries :
                 /\ Len(x[1]) = n - 1
                 /\ \A i \in 1..Len(x[1]) : x[1][i].k # x[2].k}}

\* the documents: a context and at most MaxEntries entries, one entry less
\* under a context that has to be fetched
Documents ==
  {JObj((IF c = JUndefined THEN <<>> ELSE <<P(KwContext, c)>>) \o es) :
     <<c, es>> \in
        ((DocContexts \ RemoteContexts) \X EntrySeqs(MaxEntries))
        \cup (RemoteContexts \X EntrySeqs(MaxEntries - 1))}

\* the cacheMethod options of the store given to expand: the default store,
\* and a caching store for the documents that have a context fetched
Stores(doc) ==
  IF TGet(doc, KwContext) \in RemoteContexts
  THEN {<<>>, <<"cache">>} ELSE {<<>>}

(***************************************************************************)
(* expand                                                                  *)
(***************************************************************************)
\* src/lib/expand.ts:639-682  expand(input, { bag }) up to its loop
Init ==
  \E doc \in Documents : \E cm \in Stores(doc) :
     LET l == Load(<<>>, doc)
     IN  /\ heap = l.h
         /\ stack = <<Node(l.v, FALSE, l.h[l.v.r].e, Undefined, Undefined, 0)>>
         /\ pc = "top"
         /\ awaiting = 0
         /\ error = ""
         /\ ctxs = <<>>
         /\ bag = JSONLDContextBag(EmptyMap, cm)
         /\ tasks = <<>>
         /\ hits = <<>>
         /\ calls = <<>>
         /\ visited = <<>>

SetSys(S) ==
  /\ ctxs' = S.ctxs
  /\ bag' = S.bag
  /\ tasks' = S.tasks
  /\ hits' = S.hits

\* src/lib/expand.ts:693  await JSONLDContext.resolve(...) on a promise that
\* is not settled yet
Suspend ==
  /\ pc = "top"
  /\ \E E \in {Entered} :
        /\ E.kind = "task"
        /\ awaiting' = E.t
        /\ SetSys(E.S)
  /\ pc' = "await"
  /\ UNCHANGED <<heap, stack, error, calls, visited>>

\* the iteration throws: resolve threw or its promise was rejected, or
\* getOrCreateTypeDef raised a TypeError
Throws(E) ==
  IF E.kind = "throw" THEN TRUE
  ELSE IF E.kind # "ok" THEN FALSE
  ELSE IF HasChild(E)
    THEN \E X \in {Selected(E)} : ~X.keyword /\ X.err
    ELSE Finished(E).err

Raise ==
  /\ Running
  /\ \E E \in {Entered} :
        /\ Throws(E)
        /\ error' = IF E.kind = "throw" THEN E.err ELSE "TypeError"
        /\ SetSys(E.S)
        /\ heap' = E.h
        /\ stack' = E.st
  /\ pc' = "raised"
  /\ UNCHANGED <<awaiting, calls, visited>>

\* src/lib/expand.ts:708-751  the current node has no child left
Finalize ==
  /\ Running
  /\ \E E \in {Entered} :
        /\ E.kind = "ok"
        /\ ~HasChild(E)
        /\ \E F \in {Finished(E)} :
              /\ ~F.err
              /\ heap' = F.h
              /\ stack' = F.st
              /\ visited' = Append(visited, F.seen)
              /\ pc' = IF F.st = <<>> THEN "done" ELSE "top"
              /\ SetSys([E.S EXCEPT !.ctxs = F.ctxs])
  /\ UNCHANGED <<awaiting, error, calls>>

\* src/lib/expand.ts:762-765  a key starting with @ is passed over
SkipKeyword ==
  /\ Running
  /\ \E E \in {Entered} :
        /\ E.kind = "ok"
        /\ HasChild(E)
        /\ Selected(E).keyword
        /\ heap' = E.h
        /\ stack' = Advance(E.st, Undefined)
        /\ SetSys(E.S)
  /\ pc' = "top"
  /\ UNCHANGED <<awaiting, error, calls, visited>>

\* src/lib/expand.ts:782  value == null || asValue || a scalar type
IsTerminal(X) ==
  IF isNullish(X.value) THEN TRUE
  ELSE IF X.asValue THEN TRUE
  ELSE X.value.t \in scalaTypes

\* src/lib/expand.ts:782-798  a null, scalar or IRI-reference child is folded
\* into the current node
Terminal ==
  /\ Running
  /\ \E E \in {Entered} :
        /\ E.kind = "ok"
        /\ HasChild(E)
        /\ \E X \in {Selected(E)} :
              /\ ~X.keyword /\ ~X.err
              /\ IsTerminal(X)
              /\ heap' = IF ~Top(E.st).isArray /\ X.type # Undefined
                            /\ X.type # X.termOrType
                           THEN promote(X.h, Top(E.st).value.r, X.type,
                                        X.value, X.termOrType)
                           ELSE X.h
              /\ stack' = Advance(E.st, X.type)
              /\ SetSys([E.S EXCEPT !.ctxs = X.ctxs])
  /\ pc' = "top"
  /\ UNCHANGED <<awaiting, error, calls, visited>>

\* src/lib/expand.ts:799-823  an array or object child becomes the current
\* node
Descend ==
  /\ Running
  /\ \E E \in {Entered} :
        /\ E.kind = "ok"
        /\ HasChild(E)
        /\ \E X \in {Selected(E)} :
              /\ ~X.keyword /\ ~X.err
              /\ ~IsTerminal(X)
              /\ heap' = X.h
              /\ stack' = Append(Advance(E.st, X.type),
                            Node(X.value, X.h[X.value.r].arr,
                                 X.h[X.value.r].e,
                                 X.termOrType, X.type, Top(E.st).context))
              /\ SetSys([E.S EXCEPT !.ctxs = X.ctxs])
  /\ pc' = "top"
  /\ UNCHANGED <<awaiting, error, calls, visited>>

MaxLoops == 1

RECURSIVE Rounds(_, _, _)
\* the number of fetches of iri among the promises that await the promise k
\* (the promise that adopted k or holds it in its Promise.all, and so on)
Rounds(tk, k, iri) ==
  LET ps == {t \in 1..(k - 1) :
               \E i \in 1..Len(tk[t].kids) : tk[t].kids[i].task = k}
  IN  IF ps = {} THEN 0
      ELSE LET p == CHOOSE t \in ps : TRUE
           IN  (IF tk[p].iri = iri THEN 1 ELSE 0) + Rounds(tk, p, iri)

\* the fetcher's response to the fetch t arrives; a fetch of an iri made
\* while MaxLoops fetches of that iri await it is followed no further
Respond(t) ==
  /\ tasks[t].st = "wait"
  /\ Rounds(tasks, t, tasks[t].iri) < MaxLoops
  /\ SetSys(respond(SNow, t))
  /\ UNCHANGED <<heap, stack, pc, awaiting, error, calls, visited>>

\* the promise a fetch adopted settles
Adopt(t) ==
  /\ tasks[t].st = "chain"
  /\ LET k == tasks[t].kids[1].task
     IN  /\ tasks[k].st \in {"done", "fail"}
         /\ tasks' = [tasks EXCEPT ![t].st = tasks[k].st,
                                   ![t].res = tasks[k].res,
                                   ![t].err = tasks[k].err]
  /\ UNCHANGED <<heap, stack, pc, awaiting, error, ctxs, bag, hits, calls,
                 visited>>

\* src/lib/expand.ts:601-606  Promise.all of a context list is fulfilled
Join(t) ==
  /\ tasks[t].st = "join"
  /\ \A i \in 1..Len(tasks[t].kids) : kidSettled(SNow, tasks[t].kids[i])
  /\ SetSys(joinDone(SNow, t))
  /\ UNCHANGED <<heap, stack, pc, awaiting, error, calls, visited>>

\* src/lib/expand.ts:601  Promise.all of a context list is rejected
Reject(t) ==
  /\ tasks[t].st = "join"
  /\ \E i \in 1..Len(tasks[t].kids) :
        /\ kidFailed(SNow, tasks[t].kids[i])
        /\ tasks' = [tasks EXCEPT ![t].st = "fail",
                        ![t].err = tasks[tasks[t].kids[i].task].err]
  /\ UNCHANGED <<heap, stack, pc, awaiting, error, ctxs, bag, hits, calls,
                 visited>>

Next ==
  \/ Suspend
  \/ Raise
  \/ Finalize
  \/ SkipKeyword
  \/ Terminal
  \/ Descend
  \/ \E t \in 1..Len(tasks) : Respond(t)
  \/ \E t \in 1..Len(tasks) : Adopt(t)
  \/ \E t \in 1..Len(tasks) : Join(t)
  \/ \E t \in 1..Len(tasks) : Reject(t)

Spec == Init /\ [][Next]_vars

(***************************************************************************)
(* JSONLDContext.fetch called on a store by a caller                       *)
(***************************************************************************)
MaxCalls == 2

\* the context of the remote document U1, as a caller may hold it from an
\* earlier session and hand it to the constructor of a store
SeedContext == fromJSONObject(TGet(Remote[U1].json, KwContext), U1).ctx

\* src/lib/expand.ts:114  new JSONLDContextBag({ contexts, cacheMethod })
InitFetch ==
  \E cm \in {<<>>, <<"cache">>, <<"dont-cache">>}, given \in BOOLEAN :
     /\ ctxs = IF given THEN <<SeedContext>> ELSE <<>>
     /\ bag = JSONLDContextBag(IF given THEN U1 :> 1 ELSE EmptyMap, cm)
     /\ heap = <<>>
     /\ stack = <<>>
     /\ pc = "idle"
     /\ awaiting = 0
     /\ error = ""
     /\ tasks = <<>>
     /\ hits = <<>>
     /\ calls = <<>>
     /\ visited = <<>>

\* src/lib/expand.ts:524  the caller calls JSONLDContext.fetch(iri, bag).
\* The call is logged with its promise, and with whether an earlier call
\* for the same iri had returned a context when this one was made.
Call(iri) ==
  /\ pc = "idle"
  /\ Len(calls) < MaxCalls
  /\ \E S \in {fetchStart(SNow, iri, Len(calls) + 1)} :
        /\ SetSys(S)
        /\ calls' = Append(calls,
              [iri |-> iri, task |-> Len(S.tasks),
               after |-> \E c \in 1..Len(calls) :
                            /\ calls[c].iri = iri
                            /\ tasks[calls[c].task].st = "done"
                            /\ tasks[calls[c].task].res # 0])
  /\ UNCHANGED <<heap, stack, pc, awaiting, error, visited>>

NextFetch ==
  \/ \E iri \in Urls : Call(iri)
  \/ \E t \in 1..Len(tasks) : Respond(t)
  \/ \E t \in 1..Len(tasks) : Adopt(t)
  \/ \E t \in 1..Len(tasks) : Join(t)
  \/ \E t \in 1..Len(tasks) : Reject(t)

SpecFetch == InitFetch /\ [][NextFetch]_vars

(***************************************************************************)
(* The context functions called directly: fromJSONObject, fromOthers and   *)
(* getOrCreateTypeDef                                                      *)
(***************************************************************************)
MaxOps == 3

\* contexts that set the scalar fields
CtxBaseA == JObj(<<P(KwBase, JStr(VocabA)), P(KwLanguage, JStr(<<"e", "n">>)),
                   P(KwVersion, JNum(Version11))>>)
CtxBaseB == JObj(<<P(KwBase, JStr(VocabB)), P(KwVocab, JStr(VocabB)),
                   P(KwLanguage, JStr(<<"d", "e">>))>>)

\* two terms defined for one IRI, the first of them IRI-typed
CtxClash == JObj(<<P(TermC, JObj(<<P(KwId, JStr(TypedIri)),
                                   P(KwType, JStr(KwId))>>)),
                   P(<<"d">>, JObj(<<P(KwId, JStr(TypedIri))>>))>>)

\* the context objects given to fromJSONObject
CtxObjects ==
  {CtxVocab, CtxBaseA, CtxBaseB, CtxStore, CtxShadow, CtxBadTerm, CtxPoison,
   CtxAlias, CtxClash}

\* the terms and compact IRIs given to getOrCreateTypeDef
Terms == {TermN, TermS, TermC, CompactSX, CompactQX, AbsN,
          <<"s", ":", "/", "/", "x", ".", "y">>}

InitCtx ==
  /\ ctxs = <<>>
  /\ bag = JSONLDContextBag(EmptyMap, <<>>)
  /\ heap = <<>>
  /\ stack = <<>>
  /\ pc = "idle"
  /\ awaiting = 0
  /\ error = ""
  /\ tasks = <<>>
  /\ hits = <<>>
  /\ calls = <<>>
  /\ visited = <<>>

\* src/lib/expand.ts:404  JSONLDContext.fromJSONObject(json): the context is
\* kept when the call returns; res 0 logs a call that threw
FromJSONObject(json) ==
  /\ Len(calls) < MaxOps
  /\ \E r \in {fromJSONObject(json, Undefined)} :
        /\ ctxs' = IF r.ok THEN Append(ctxs, r.ctx) ELSE ctxs
        /\ calls' = Append(calls,
              [op |-> "fromJSONObject", json |-> json,
               res |-> IF r.ok THEN Len(ctxs) + 1 ELSE 0])
  /\ UNCHANGED <<heap, stack, pc, awaiting, error, bag, tasks, hits, visited>>

\* src/lib/expand.ts:351  JSONLDContext.fromOthers(iri, source, others),
\* others listing contexts made so far (0: a null entry)
FromOthers(others) ==
  /\ Len(calls) < MaxOps
  /\ ctxs' = Append(ctxs,
       fromOthers(Undefined, Undefined,
                  [i \in 1..Len(others) |->
                     IF others[i] = 0 THEN <<>> ELSE <<ctxs[others[i]]>>]))
  /\ calls' = Append(calls,
       [op |-> "fromOthers", others |-> others, res |-> Len(ctxs) + 1])
  /\ UNCHANGED <<heap, stack, pc, awaiting, error, bag, tasks, hits, visited>>

\* src/lib/expand.ts:255  ctxs[i].getOrCreateTypeDef(term): the IRI of the
\* definition returned is logged, <<>> for undefined, err for a TypeError
GetOrCreateTypeDef(i, term) ==
  /\ Len(calls) < MaxOps
  /\ \E r \in {getOrCreateTypeDef(ctxs[i], term)} :
        /\ ctxs' = [ctxs EXCEPT ![i] = r.ctx]
        /\ calls' = Append(calls,
              [op |-> "getOrCreateTypeDef", ctx |-> i, term |-> term,
               err |-> r.err, found |-> r.d # 0,
               id |-> IF r.d = 0 THEN Undefined ELSE r.ctx.defs[r.d].id])
  /\ UNCHANGED <<heap, stack, pc, awaiting, error, bag, tasks, hits, visited>>

NextCtx ==
  \/ \E json \in CtxObjects : FromJSONObject(json)
  \/ \E a, b \in 0..Len(ctxs) : FromOthers(<<a, b>>)
  \/ \E i \in 1..Len(ctxs), term \in Terms : GetOrCreateTypeDef(i, term)

SpecCtx == InitCtx /\ [][NextCtx]_vars

(***************************************************************************)
(* Properties of expand (Spec)                                             *)
(***************************************************************************)
\* the finished mappings of the document
Mappings == {i \in 1..Len(visited) : ~visited[i].isArray}

\* the context an embedded @context object parses to
Parsed(own) == fromJSONObject(own, Undefined)

\* the mapping carried an embedded @context object with a valid @vocab
HasVocab(own) ==
  IF own.t # "object" THEN FALSE
  ELSE IF ~Parsed(own).ok THEN FALSE
  ELSE Parsed(own).ctx.vocab # Undefined

VocabOf(own) == Parsed(own).ctx.vocab

\* the IRI the embedded context own resolves the key k to, <<>> when none
ResolvedBy(own, k) ==
  LET r == getOrCreateTypeDef(Parsed(own).ctx, k)
  IN  IF r.err \/ r.d = 0 THEN Undefined ELSE r.ctx.defs[r.d].id

\* k is a bare term of the context own: no colon, no leading @, and neither
\* k nor V+k defined by the context
BareTerm(own, k) ==
  /\ ~startsWithAt(k)
  /\ ~aliasRe(k).match
  /\ k \notin DOMAIN Parsed(own).ctx.types
  /\ (VocabOf(own) \o k) \notin DOMAIN Parsed(own).ctx.types

\* no other entry of the mapping has a key that resolves to the IRI of k
Unshared(v, j) ==
  \A j2 \in 1..Len(v.children) :
     j2 # j => ResolvedBy(v.own, v.children[j2].k)
                  # VocabOf(v.own) \o v.children[j].k

\* the entry j of the finished mapping v was rewritten to its vocabulary IRI
Rewritten(v, j) ==
  /\ ~HHas(heap[v.cell], v.children[j].k)
  /\ HGet(heap[v.cell], VocabOf(v.own) \o v.children[j].k) = v.children[j].v

ContextOf(v) == ctxs[v.context]

\* the entry j of v has a key whose Term Definition has type @id
IRITyped(v, j) ==
  /\ v.context # 0
  /\ ~startsWithAt(v.children[j].k)
  /\ v.children[j].k \in DOMAIN ContextOf(v).types
  /\ ContextOf(v).types[v.children[j].k] # 0
  /\ ContextOf(v).defs[ContextOf(v).types[v.children[j].k]].type = KwId

\* the IRI the final context of v resolves the string s to, <<>> when none
IRIOf(v, s) ==
  LET r == getOrCreateTypeDef(ContextOf(v), s)
  IN  IF r.err \/ r.d = 0 THEN Undefined ELSE r.ctx.defs[r.d].id

\* x is the object { "@id": iri }
IsIRIObject(x, iri) ==
  /\ isObjectIn(heap, x)
  /\ HGet(heap[x.r], KwId) = HStr(iri)

\* the value found under the key K of v stands for the string s as an IRI
\* object, and s is not found there as a string
ReplacedByIRIObject(v, K, s) ==
  LET cur == HGet(heap[v.cell], K)
  IN  IF isArrayIn(heap, cur)
        THEN /\ \E n \in 1..Len(heap[cur.r].e) :
                   IsIRIObject(heap[cur.r].e[n].v, IRIOf(v, s))
             /\ \A n \in 1..Len(heap[cur.r].e) : heap[cur.r].e[n].v # HStr(s)
        ELSE IsIRIObject(cur, IRIOf(v, s))

\* the strings of the value x: x itself, or the strings of the array x
StringsOf(x) ==
  IF x.t = "string" THEN {x.s}
  ELSE IF isArrayIn(heap, x)
    THEN {heap[x.r].e[n].v.s : n \in {m \in 1..Len(heap[x.r].e) :
                                        heap[x.r].e[m].v.t = "string"}}
  ELSE {}

\* C2 (as stated): when expand has returned, for every entry whose key
\* resolves to a Term Definition with type @id, each string of its value
\* that can be resolved is found under the resolved key as the object
\* { "@id": IRI }, and is not left there as a bare string.
C2_Stated ==
  pc = "done" =>
    \A i \in Mappings : \A j \in 1..Len(visited[i].children) :
       IRITyped(visited[i], j) =>
         \A s \in StringsOf(visited[i].children[j].v) :
            IRIOf(visited[i], s) # Undefined =>
              ReplacedByIRIObject(visited[i],
                ContextOf(visited[i]).defs[
                  ContextOf(visited[i]).types[visited[i].children[j].k]].id, s)

\* the entry of the mapping v written under the alias of @id, 0 when none
AliasEntry(v) ==
  IF \E j \in 1..Len(v.children) :
        v.children[j].k = ContextOf(v).kwaliases[KwId]
  THEN CHOOSE j \in 1..Len(v.children) :
          v.children[j].k = ContextOf(v).kwaliases[KwId]
  ELSE 0

IsPrefixOf(a, b) == Len(a) <= Len(b) /\ SubSeq(b, 1, Len(a)) = a

\* C4 (as stated): when expand has returned, a mapping whose context sets
\* an @vocab and a keyword alias for @id, and that had an entry written
\* under the alias with a resolvable string, holds under @id the IRI of
\* that string, and holds no key of the vocabulary with the entry's value.
C4_Stated ==
  pc = "done" =>
    \A i \in Mappings :
       (/\ visited[i].context # 0
        /\ ContextOf(visited[i]).vocab # Undefined
        /\ ContextOf(visited[i]).kwaliases[KwId] # KwId
        /\ AliasEntry(visited[i]) # 0
        /\ visited[i].children[AliasEntry(visited[i])].v.t = "string"
        /\ IRIOf(visited[i],
                 visited[i].children[AliasEntry(visited[i])].v.s) # Undefined)
       => /\ HGet(heap[visited[i].cell], KwId)
               = HStr(IRIOf(visited[i],
                        visited[i].children[AliasEntry(visited[i])].v.s))
          /\ \A n \in 1..Len(heap[visited[i].cell].e) :
                IsPrefixOf(ContextOf(visited[i]).vocab,
                           heap[visited[i].cell].e[n].k)
                  => heap[visited[i].cell].e[n].v
                       # visited[i].children[AliasEntry(visited[i])].v

\* a context list with an element that is neither a string nor a mapping
Malformed(cj) ==
  /\ cj.t = "array"
  /\ \E n \in 1..Len(cj.c) : cj.c[n].v.t \notin {"string", "object"}

\* the @context the current node carries in the document, when expand is at
\* the top of the node's first iteration
Carried ==
  IF pc = "top" /\ Top(stack).index = 0 /\ ~Top(stack).isArray
    THEN Tree(heap, HGet(heap[Top(stack).value.r], KwContext))
    ELSE JUndefined

InvalidContext == "Invalid JSON-LD @context provided"

\* C8: resolving an @context list with an element that is neither a string
\* nor a mapping throws: the iteration of expand that meets such a list
\* raises; no node of expand ever holds a context made from such a list;
\* the fetch of a remote document with such a list never yields a context;
\* and expand never returns once such a fetch was answered.
C8_MalformedListRaises ==
  /\ Malformed(Carried) =>
        Entered.kind = "throw" /\ Entered.err = InvalidContext
  /\ \A n \in 1..Len(stack) : ~Malformed(stack[n].own)
  /\ \A i \in 1..Len(visited) : ~Malformed(visited[i].own)
  /\ \A t \in 1..Len(tasks) :
        (tasks[t].iri # Undefined
         /\ Malformed(TGet(Remote[tasks[t].iri].json, KwContext)))
        => /\ tasks[t].st \in {"wait", "fail"}
           /\ tasks[t].st = "fail" => pc # "done"

\* expand raised on a document whose @context is a malformed list
C8_Witness ==
  /\ pc = "raised"
  /\ error = InvalidContext
  /\ Len(stack) = 1
  /\ Malformed(Tree(heap, HGet(heap[Top(stack).value.r], KwContext)))

\* C9 (as stated): the error of a malformed @context list is the only error
\* expand raises; every other malformed context content is skipped.
C9_Stated == pc = "raised" => error = InvalidContext

\* C10 (as stated): after expand returns, every key of every traversed
\* mapping that does not start with @ is an absolute IRI.
C10_Stated ==
  pc = "done" =>
    \A i \in Mappings : \A n \in 1..Len(heap[visited[i].cell].e) :
       \/ startsWithAt(heap[visited[i].cell].e[n].k)
       \/ urlRe(heap[visited[i].cell].e[n].k)

(***************************************************************************)
(* Properties of JSONLDContext.fetch on a store (SpecFetch)                *)
(***************************************************************************)
\* the calls of the fetcher made for the call c of fetch
HitsOf(c) == {n \in 1..Len(hits) : hits[n].call = c}

\* C5 (as stated): on a store with cacheMethod 'cache', a call of fetch made
\* after an earlier call for the same iri has returned a context invokes the
\* fetcher zero times.
C5_Stated ==
  bag.cacheMethod = "cache" =>
    \A c \in 1..Len(calls) : calls[c].after => HitsOf(c) = {}

\* every call of fetch invoked the fetcher for its iri, and no promise was
\* settled from the store's map
AlwaysFetched ==
  /\ \A c \in 1..Len(calls) :
        \E n \in HitsOf(c) : hits[n].url = calls[c].iri
  /\ \A t \in 1..Len(tasks) : ~tasks[t].cached

\* C6 (as stated): on a store with cacheMethod 'dont-cache', every call of
\* fetch invokes the fetcher for its iri and none returns a context read
\* from the store's map.
C6_Stated == bag.cacheMethod = "dont-cache" => AlwaysFetched

\* C6 (amended): the same, for a store whose constructor was given no
\* contexts.
C6_DontCache ==
  (bag.cacheMethod = "dont-cache" /\ ~bag.seeded) => AlwaysFetched

\* on a store with 'dont-cache' and no contexts given, a second call for an
\* iri was made after the first had returned a context, and invoked the
\* fetcher again
C6_Witness ==
  /\ bag.cacheMethod = "dont-cache"
  /\ ~bag.seeded
  /\ Len(calls) = 2
  /\ calls[2].after
  /\ \E n \in HitsOf(2) : hits[n].url = calls[2].iri
  /\ tasks[calls[2].task].st = "done"
  /\ tasks[calls[2].task].res # 0

\* the calls of fetch for an iri whose response is one fetch gives up on
Refused ==
  {c \in 1..Len(calls) :
     \/ ~Remote[calls[c].iri].ok
     \/ Remote[calls[c].iri].ctype # "application/ld+json"
     \/ Remote[calls[c].iri].json.t # "object"}

\* C14: a call of fetch whose response has a non-success status, a
\* Content-Type other than exactly application/ld+json, or a body that is
\* not a mapping never raises, returns undefined once answered, has invoked
\* the fetcher exactly once, and its iri is no key of the store's map.
C14_GivesUp ==
  \A c \in Refused :
     /\ tasks[calls[c].task].st \in {"wait", "done"}
     /\ tasks[calls[c].task].st = "done" => tasks[calls[c].task].res = 0
     /\ Cardinality(HitsOf(c)) = 1
     /\ \A n \in HitsOf(c) : hits[n].url = calls[c].iri
     /\ calls[c].iri \notin DOMAIN bag.contexts

\* on a caching store, fetch was called twice for the iri answered with a
\* parameter on its Content-Type, and both calls have returned undefined
C14_Witness ==
  /\ bag.cacheMethod = "cache"
  /\ Len(calls) = 2
  /\ \A c \in 1..2 :
        /\ calls[c].iri = U8
        /\ tasks[calls[c].task].st = "done"
        /\ tasks[calls[c].task].res = 0
  /\ Len(hits) = 2

(***************************************************************************)
(* Properties of the context functions (SpecCtx)                           *)
(***************************************************************************)
\* the calls of an operation
CallsOf(op) == {c \in 1..Len(calls) : calls[c].op = op}

\* the context object the context i was parsed from
ObjectOf(i) ==
  IF \E c \in CallsOf("fromJSONObject") : calls[c].res = i
  THEN calls[CHOOSE c \in CallsOf("fromJSONObject") : calls[c].res = i].json
  ELSE JUndefined

\* the context object json declares the prefix alias p: an entry p whose
\* value is an absolute URL
DeclaresPrefix(json, p) ==
  /\ ~startsWithAt(p)
  /\ TGet(json, p).t = "string"
  /\ urlRe(TGet(json, p).s)

\* the call c resolved a compact IRI p:s whose prefix the context object of
\* its context declares
CompactCall(c) ==
  /\ aliasRe(calls[c].term).match
  /\ ObjectOf(calls[c].ctx).t = "object"
  /\ DeclaresPrefix(ObjectOf(calls[c].ctx), aliasRe(calls[c].term).prefix)

\* the call c yielded B+s
YieldsAliased(c) ==
  /\ ~calls[c].err
  /\ calls[c].found
  /\ calls[c].id = TGet(ObjectOf(calls[c].ctx),
                         aliasRe(calls[c].term).prefix).s
                    \o aliasRe(calls[c].term).suffix

\* C3 (as stated): on a context parsed from an object that declares the
\* prefix alias p -> B, resolving a compact IRI p:s yields B+s.
C3_Stated ==
  \A c \in CallsOf("getOrCreateTypeDef") : CompactCall(c) => YieldsAliased(c)

\* C3 (amended): the same, for a compact IRI that is not itself a key of the
\* context object and has not the shape of an absolute URL.
C3_CompactIRI ==
  \A c \in CallsOf("getOrCreateTypeDef") :
     (/\ CompactCall(c)
      /\ TGet(ObjectOf(calls[c].ctx), calls[c].term) = JUndefined
      /\ ~urlRe(calls[c].term))
     => YieldsAliased(c)

\* a compact IRI was resolved through a declared prefix, on a context that
\* had resolved another term before
C3_Witness ==
  \E c \in CallsOf("getOrCreateTypeDef") :
     /\ c = 3
     /\ calls[2].op = "getOrCreateTypeDef"
     /\ calls[2].ctx = calls[c].ctx
     /\ calls[2].term # calls[c].term
     /\ CompactCall(c)
     /\ TGet(ObjectOf(calls[c].ctx), calls[c].term) = JUndefined
     /\ ~urlRe(calls[c].term)
     /\ YieldsAliased(c)

ScalarFields == {"base", "version", "vocab", "language"}

\* the listed contexts of the call c that define the field f, by position
Defining(c, f) ==
  {n \in 1..Len(calls[c].others) :
     IF calls[c].others[n] = 0 THEN FALSE
     ELSE ctxs[calls[c].others[n]][f] # Undefined}

\* the value of f in the first listed context that defines it
FirstDefined(c, f) ==
  IF Defining(c, f) = {} THEN Undefined
  ELSE ctxs[calls[c].others[CHOOSE n \in Defining(c, f) :
                              \A m \in Defining(c, f) : n <= m]][f]

\* C7: each of base, version, vocab and language of the context fromOthers
\* returns is the value of the first listed non-null context that defines
\* the field, and is unset when none does.
C7_FirstWins ==
  \A c \in CallsOf("fromOthers") : \A f \in ScalarFields :
     ctxs[calls[c].res][f] = FirstDefined(c, f)

\* two contexts with different vocabularies and bases were merged, and the
\* merged context has those of the first
C7_Witness ==
  \E c \in CallsOf("fromOthers") :
     /\ calls[c].others[1] # 0
     /\ calls[c].others[2] # 0
     /\ ctxs[calls[c].others[1]].base # Undefined
     /\ ctxs[calls[c].others[2]].base # Undefined
     /\ ctxs[calls[c].others[1]].base # ctxs[calls[c].others[2]].base
     /\ ctxs[calls[c].others[1]].language # ctxs[calls[c].others[2]].language
     /\ ctxs[calls[c].res].base = ctxs[calls[c].others[1]].base
     /\ ctxs[calls[c].res].language = ctxs[calls[c].others[1]].language

(***************************************************************************)
(* Properties of the document expand returns (Spec)                        *)
(***************************************************************************)
\* the document expand has returned: its input, rewritten in place (the
\* root is the node finished last)
Returned == Tree(heap, HRef(visited[Len(visited)].cell))

RECURSIVE CarriesContext(_)
\* a mapping of the JSON tree tv has an @context key
CarriesContext(tv) ==
  IF tv.t \notin {"object", "array"} THEN FALSE
  ELSE \/ tv.t = "object" /\ TGet(tv, KwContext) # JUndefined
       \/ \E n \in 1..Len(tv.c) : CarriesContext(tv.c[n].v)

\* C11 (as stated): after expand returns, no mapping anywhere in the
\* returned document carries an @context key, mappings under keyword keys
\* and values of IRI-typed terms included.
C11_Stated == pc = "done" => ~CarriesContext(Returned)

\* the node n of the stack came without an @context of its own
Contextless(n) ==
  /\ stack[n].own = JUndefined
  /\ stack[n].isArray \/ ~HHas(heap[stack[n].value.r], KwContext)

\* C12: a nested mapping or sequence without an @context of its own has the
\* context object of its parent node, while expand is in it and when expand
\* has finished it, at any depth and below arrays.
C12_InheritsParent ==
  /\ \A n \in 2..Len(stack) :
        Contextless(n) => stack[n].context = stack[n - 1].context
  /\ \A i \in 1..Len(visited) :
        (visited[i].depth > 1 /\ visited[i].own = JUndefined)
          => visited[i].context = visited[i].up

\* expand has returned a document whose root set a vocabulary V, and a
\* mapping inside an array of the root was expanded with the root's context:
\* its term m is found under V+m
C12_Witness ==
  /\ pc = "done"
  /\ \E i \in Mappings :
        /\ visited[i].depth = 3
        /\ visited[i].own = JUndefined
        /\ visited[i].context # 0
        /\ visited[i].context = visited[Len(visited)].context
        /\ ctxs[visited[i].context].vocab = VocabA
        /\ HGet(heap[visited[i].cell], VocabA \o TermM) = HStr(PlainV)

\* the entry j of the finished mapping v has a compact IRI as key whose
\* prefix is declared by the context of the parent node and not by the
\* @context of v itself, the parent's context resolving the key through
\* that prefix
ParentPrefixed(v, j) ==
  /\ v.depth > 1
  /\ v.own.t = "object"
  /\ v.up # 0
  /\ ~urlRe(v.children[j].k)
  /\ aliasRe(v.children[j].k).match
  /\ aliasRe(v.children[j].k).prefix \in DOMAIN ctxs[v.up].aliases
  /\ TGet(v.own, aliasRe(v.children[j].k).prefix) = JUndefined
  /\ TGet(v.own, v.children[j].k) = JUndefined
  /\ \E r \in {getOrCreateTypeDef(ctxs[v.up], v.children[j].k)} :
        IF r.err \/ r.d = 0 THEN FALSE
        ELSE r.ctx.defs[r.d].id
               = ctxs[v.up].aliases[aliasRe(v.children[j].k).prefix]
                 \o aliasRe(v.children[j].k).suffix

\* C13 (as stated): when expand has returned, inside a nested mapping that
\* declares its own @context, an entry whose key is a compact IRI with a
\* prefix declared only by the parent's context is found under the absolute
\* IRI the parent's prefix gives it, and no longer under the compact IRI.
C13_Stated ==
  pc = "done" =>
    \A i \in Mappings : \A j \in 1..Len(visited[i].children) :
       ParentPrefixed(visited[i], j) =>
         /\ ~HHas(heap[visited[i].cell], visited[i].children[j].k)
         /\ HGet(heap[visited[i].cell],
                 ctxs[visited[i].up].aliases[
                   aliasRe(visited[i].children[j].k).prefix]
                 \o aliasRe(visited[i].children[j].k).suffix)
              = visited[i].children[j].v

\* the IRI the key of the entry j of the finished mapping v resolved to
\* when expand came to the entry, <<>> when none
KeyIRI(v, j) == v.resolved[j]

\* the entry j of v has a key that resolves, to an IRI no other entry of v
\* is written under or resolves to, and its term is not of type @id
PlainUnshared(v, j) ==
  /\ KeyIRI(v, j) # Undefined
  /\ ~IRITyped(v, j)
  /\ \A j2 \in 1..Len(v.children) :
        j2 # j => /\ v.children[j2].k # KeyIRI(v, j)
                  /\ KeyIRI(v, j2) # KeyIRI(v, j)

\* the array x has the elements it had when expand came to it
SameLength(x) ==
  \E a \in 1..Len(visited) :
     /\ visited[a].isArray
     /\ visited[a].cell = x.r
     /\ Len(heap[x.r].e) = Len(visited[a].children)

\* C15: when expand has returned, every entry of a traversed mapping whose
\* term is not IRI-typed and whose resolved IRI no other entry of the
\* mapping shares is found under that IRI with the value it was given: the
\* same scalar, the same mapping, or the same array with as many elements.
C15_ShapeKept ==
  pc = "done" =>
    \A i \in Mappings : \A j \in 1..Len(visited[i].children) :
       PlainUnshared(visited[i], j) =>
         /\ HGet(heap[visited[i].cell], KeyIRI(visited[i], j))
              = visited[i].children[j].v
         /\ isArrayIn(heap, visited[i].children[j].v)
              => SameLength(visited[i].children[j].v)

\* expand has returned a document with a vocabulary V in which the term c
\* was given an array of two strings, found under V+c as it was, and the
\* term n a string
C15_Witness ==
  /\ pc = "done"
  /\ \E i \in Mappings : \E j, j2 \in 1..Len(visited[i].children) :
        /\ PlainUnshared(visited[i], j)
        /\ PlainUnshared(visited[i], j2)
        /\ visited[i].children[j].k = TermC
        /\ KeyIRI(visited[i], j) = VocabA \o TermC
        /\ isArrayIn(heap, visited[i].children[j].v)
        /\ Len(heap[visited[i].children[j].v.r].e) = 2
        /\ HGet(heap[visited[i].cell], VocabA \o TermC)
             = visited[i].children[j].v
        /\ visited[i].children[j2].v = HStr(PlainV)
        /\ HGet(heap[visited[i].cell], KeyIRI(visited[i], j2)) = HStr(PlainV)

\* what resolving the term of the call c yields on the context of c as
\* fromJSONObject made it, before any other term was resolved on it
ResolvedFirst(c) ==
  LET r == getOrCreateTypeDef(
             fromJSONObject(ObjectOf(calls[c].ctx), Undefined).ctx,
             calls[c].term)
  IN  [err |-> r.err, found |-> r.d # 0,
       id |-> IF r.d = 0 THEN Undefined ELSE r.ctx.defs[r.d].id]

\* C16 (as stated): at every point of a sequence of getOrCreateTypeDef calls
\* against one context, resolving a term yields what resolving it first
\* yields: the same IRI or the same failure, whatever was resolved before.
C16_Stated ==
  \A c \in CallsOf("getOrCreateTypeDef") :
     ObjectOf(calls[c].ctx).t = "object" =>
       /\ calls[c].err = ResolvedFirst(c).err
       /\ calls[c].found = ResolvedFirst(c).found
       /\ calls[c].id = ResolvedFirst(c).id

\* the listed contexts of the call c that alias the keyword kw, by position
Aliasing(c, kw) ==
  {n \in 1..Len(calls[c].others) :
     IF calls[c].others[n] = 0 THEN FALSE
     ELSE ctxs[calls[c].others[n]].kwaliases[kw] # kw}

\* C17 (as stated): when a context listed to fromOthers aliases a keyword,
\* the keyword alias table of the merged context maps the keyword to the
\* alias of the first listed context that aliases it.
C17_Stated ==
  \A c \in CallsOf("fromOthers") : \A kw \in DOMAIN JSONLDKWAliases :
     Aliasing(c, kw) # {} =>
       ctxs[calls[c].res].kwaliases[kw]
         = ctxs[calls[c].others[CHOOSE n \in Aliasing(c, kw) :
                 \A m \in Aliasing(c, kw) : n <= m]].kwaliases[kw]

\* the listed contexts of the call c for which fromJSONObject recorded the
\* prefix alias p, by position
Prefixing(c, p) ==
  {n \in 1..Len(calls[c].others) :
     IF calls[c].others[n] = 0 THEN FALSE
     ELSE p \in DOMAIN ctxs[calls[c].others[n]].aliases}

\* the context m holds the prefix alias p with the value b, as an entry of
\* its aliases Map or as a property of it
HoldsPrefix(m, p, b) ==
  \/ p \in DOMAIN m.amap /\ m.amap[p] = b
  \/ p \in DOMAIN m.aliases /\ m.aliases[p] = b

\* C18 (as stated): the context fromOthers returns holds every prefix alias
\* fromJSONObject recorded for a listed context, with the value of the first
\* listed context that has it.
C18_Stated ==
  \A c \in CallsOf("fromOthers") :
     \A n \in 1..Len(calls[c].others) :
        calls[c].others[n] # 0 =>
          \A p \in DOMAIN ctxs[calls[c].others[n]].aliases :
             HoldsPrefix(ctxs[calls[c].res], p,
               ctxs[calls[c].others[CHOOSE f \in Prefixing(c, p) :
                      \A g \in Prefixing(c, p) : f <= g]].aliases[p])

\* x is an absolute-IRI string, or an array of absolute-IRI strings
IsIRIValue(x) ==
  IF x.t = "string" THEN urlRe(x.s)
  ELSE IF isArrayIn(heap, x)
    THEN \A n \in 1..Len(heap[x.r].e) :
            IF heap[x.r].e[n].v.t = "string" THEN urlRe(heap[x.r].e[n].v.s)
            ELSE FALSE
  ELSE FALSE

\* C19 (as stated): when expand has returned, in every traversed mapping
\* that was expanded under a context, what is found under @id and under
\* @type is an absolute-IRI string or an array of absolute-IRI strings.
C19_Stated ==
  pc = "done" =>
    \A i \in Mappings : \A kw \in {KwId, KwType} :
       (visited[i].context # 0 /\ HHas(heap[visited[i].cell], kw))
         => IsIRIValue(HGet(heap[visited[i].cell], kw))

\* the step has folded the value v under the key K of the mapping o of the
\* heap h by the promotion rule, and has deleted the key k
Promoted(h, o, K, v, k) ==
  /\ ~HHas(heap'[o], k)
  /\ IF isArrayIn(h, HGet(h[o], K))
       THEN /\ HGet(heap'[o], K) = HGet(h[o], K)
            /\ heap'[HGet(h[o], K).r].e
                 = Append(h[HGet(h[o], K).r].e, [k |-> <<>>, v |-> v])
     ELSE IF ~isNullish(HGet(h[o], K))
       THEN /\ HGet(heap'[o], K).t = "ref"
            /\ HGet(heap'[o], K).r > Len(h)
            /\ heap'[HGet(heap'[o], K).r].arr
            /\ heap'[HGet(heap'[o], K).r].e = Items(<<HGet(h[o], K), v>>)
     ELSE HGet(heap'[o], K) = v

\* a step of expand that passes a terminal child whose key resolved to
\* another key follows the promotion rule
TerminalPromoted(E) ==
  \A X \in {Selected(E)} :
     (/\ ~X.keyword
      /\ IsTerminal(X)
      /\ ~Top(E.st).isArray
      /\ X.type # Undefined
      /\ X.type # X.termOrType)
     => Promoted(E.h, Top(E.st).value.r, X.type, X.value, X.termOrType)

\* a step of expand that finishes a child node whose key resolved to
\* another key follows the promotion rule on the parent
FinishedPromoted(E) ==
  (/\ Len(E.st) > 1
   /\ Top(E.st).type # Undefined
   /\ Top(E.st).type # Top(E.st).termOrType)
  => Promoted(E.h, E.st[Len(E.st) - 1].value.r, Top(E.st).type,
              Top(E.st).value, Top(E.st).termOrType)

\* C20: every step of expand that folds a value v under a resolved key K
\* different from the original key appends v when K holds an array, makes K
\* the array [p, v] when K holds a single non-null value p, sets K to v
\* otherwise, and deletes the original key; for terminal values and for
\* finished child nodes alike.
C20_PromotionRule ==
  [][\A E \in {Entered} :
       (/\ Running
        /\ E.kind = "ok"
        /\ stack' # stack
        /\ pc' \in {"top", "done"})
       => IF HasChild(E) THEN TerminalPromoted(E) ELSE FinishedPromoted(E)]_vars

\* expand has returned a mapping in which a string written under an absolute
\* IRI and a nested mapping written under the term of that IRI were folded
\* into one two-element array, the term's key being deleted
C20_Witness ==
  /\ pc = "done"
  /\ \E i \in Mappings : \E j1, j2 \in 1..Len(visited[i].children) :
        /\ j1 < j2
        /\ visited[i].children[j1].k = AbsN
        /\ visited[i].children[j2].k = TermN
        /\ visited[i].resolved[j2] = AbsN
        /\ isObjectIn(heap, visited[i].children[j2].v)
        /\ ~HHas(heap[visited[i].cell], TermN)
        /\ isArrayIn(heap, HGet(heap[visited[i].cell], AbsN))
        /\ heap[HGet(heap[visited[i].cell], AbsN).r].e
             = Items(<<visited[i].children[j1].v, visited[i].children[j2].v>>)

(***************************************************************************)
(* Properties of the traversal of expand (Spec)                            *)
(***************************************************************************)
\* the keywords of a container wrapper no document of the model is given
WrapperKeys == {KwList, KwSet, KwLanguage, KwIndex}

\* the definition the context c holds for the term k declares a container
DeclaresContainer(c, k) ==
  IF c = 0 THEN FALSE
  ELSE IF k \notin DOMAIN ctxs[c].types THEN FALSE
  ELSE IF ctxs[c].types[k] = 0 THEN FALSE
  ELSE ctxs[c].defs[ctxs[c].types[k]].container \in containerTypes

\* C21: every traversal node has its container tag unset, on the stack and
\* when it is finished, and no mapping of the document ever has a key @list,
\* @set, @language or @index (the documents given have none), also for
\* terms whose definition declares an @container.
C21_NoContainer ==
  /\ \A n \in 1..Len(stack) : stack[n].container = Undefined
  /\ \A i \in 1..Len(visited) : visited[i].container = Undefined
  /\ \A o \in 1..Len(heap) : \A kw \in WrapperKeys : ~HHas(heap[o], kw)

\* expand has returned a document in which a term declared with the
\* container @list was given an array, and the array itself is found under
\* the term's IRI
C21_Witness ==
  /\ pc = "done"
  /\ \E i \in Mappings : \E j \in 1..Len(visited[i].children) :
        /\ DeclaresContainer(visited[i].context, visited[i].children[j].k)
        /\ isArrayIn(heap, visited[i].children[j].v)
        /\ visited[i].resolved[j] # Undefined
        /\ HGet(heap[visited[i].cell], visited[i].resolved[j])
             = visited[i].children[j].v
        /\ \E a \in 1..Len(visited) :
              /\ visited[a].cell = visited[i].children[j].v.r
              /\ visited[a].container = Undefined

(***************************************************************************)
(* Properties of the term table (SpecCtx)                                  *)
(***************************************************************************)
\* the entries of the context object json whose key is no keyword and whose
\* value is a string starting with @
KeywordEntries(json) ==
  {n \in 1..Len(json.c) :
     /\ ~startsWithAt(json.c[n].k)
     /\ json.c[n].v.t = "string"
     /\ startsWithAt(json.c[n].v.s)}

\* C22 (as stated): when fromJSONObject has returned, the term table of the
\* context has no entry for the key of a context entry whose string value
\* starts with @, and none for that keyword string.
C22_Stated ==
  \A c \in CallsOf("fromJSONObject") :
     (c = Len(calls) /\ calls[c].res # 0) =>
       \A n \in KeywordEntries(calls[c].json) :
          /\ calls[c].json.c[n].k \notin DOMAIN ctxs[calls[c].res].types
          /\ calls[c].json.c[n].v.s \notin DOMAIN ctxs[calls[c].res].types

(***************************************************************************)
(* Properties of the promises of fetch and resolve (SpecFetch)             *)
(***************************************************************************)
Settled(res) == [ok |-> TRUE, res |-> res]
Thrown == [ok |-> FALSE, res |-> <<>>]

RECURSIVE InOrderFetch(_, _)
RECURSIVE InOrderResolve(_, _, _)
RECURSIVE InOrderList(_, _, _, _)
\* what fetch(iri) returns when every reference is fetched and resolved to
\* its end before the next one is begun, on a store that caches nothing:
\* res is <<>> for undefined and <<context>> otherwise, ok is FALSE when the
\* call throws; n bounds the depth of the references followed
InOrderFetch(iri, n) ==
  IF n = 0 THEN Thrown
  ELSE IF \/ ~Remote[iri].ok
          \/ Remote[iri].ctype # "application/ld+json"
          \/ Remote[iri].json.t # "object"
    THEN Settled(<<>>)
  ELSE InOrderResolve(TGet(Remote[iri].json, KwContext), iri, n - 1)
InOrderResolve(cj, url, n) ==
  IF cj.t = "object"
    THEN IF fromJSONObject(cj, url).ok
           THEN Settled(<<fromJSONObject(cj, url).ctx>>) ELSE Thrown
  ELSE IF cj.t = "null" THEN Settled(<<nullContext(url)>>)
  ELSE IF cj.t = "string" THEN InOrderFetch(cj.s, n)
  ELSE IF cj.t # "array" THEN Settled(<<>>)
  ELSE LET l == InOrderList(cj.c, 1, <<>>, n)
       IN  IF l.ok THEN Settled(<<fromOthers(Undefined, url, l.res)>>)
           ELSE Thrown
InOrderList(c, i, acc, n) ==
  IF i > Len(c) THEN Settled(acc)
  ELSE LET one == IF c[i].v.t = "string" THEN InOrderFetch(c[i].v.s, n)
                  ELSE IF c[i].v.t = "object"
                    THEN InOrderResolve(c[i].v, Undefined, n)
                  ELSE Thrown
       IN  IF one.ok THEN InOrderList(c, i + 1, Append(acc, one.res), n)
           ELSE Thrown

\* the promises of resolve for the @context list of a remote document that
\* have been fulfilled
Merged == {t \in 1..Len(tasks) : tasks[t].iri = Undefined /\ tasks[t].st = "done"}

\* C23: the context resolve returns for the @context list of a remote
\* document is, whatever the order in which the fetches of the listed
\* references were answered, the context obtained by resolving the
\* references one after the other in list order: the same scalar fields,
\* aliases and term table.
C23_ListOrder ==
  \A t \in Merged :
     /\ tasks[t].res # 0
     /\ InOrderResolve(TGet(Remote[tasks[t].url].json, KwContext),
                       tasks[t].url, Cardinality(Urls))
          = Settled(<<ctxs[tasks[t].res]>>)

\* the list of U2 was merged after the fetch of its second reference had
\* been answered before the fetch of its first: the merged context has the
\* term s as the first reference defines it and the vocabulary of the second
C23_Witness ==
  \E t \in Merged :
     /\ tasks[t].url = U2
     /\ tasks[tasks[t].kids[1].task].iri = U1
     /\ tasks[tasks[t].kids[2].task].iri = U0
     /\ tasks[tasks[t].kids[2].task].res < tasks[tasks[t].kids[1].task].res
     /\ TypeOf(ctxs[tasks[t].res], <<"s">>) = <<JSONLDTypeDef(PrefS)>>
     /\ ctxs[tasks[t].res].vocab = VocabA

\* the fetches that are outstanding while a fetch of the same iri awaits
\* them: the iri is in no store (the fetcher was called), the response is
\* the one the awaiting fetch got, and resolving it makes the same fetch
Reentered ==
  {t \in 1..Len(tasks) :
     /\ tasks[t].st = "wait"
     /\ Rounds(tasks, t, tasks[t].iri) > 0}

\* C24 (as stated), as the safety property that termination needs: a call
\* of fetch completes for every set of remote documents, also for documents
\* that reference themselves, so no fetch of an iri is ever made on behalf
\* of a fetch of that iri which is waiting for it.
C24_Stated == Reentered = {}

(***************************************************************************)
(* expand called one document after the other on one caching store         *)
(***************************************************************************)
MaxRuns == 3

\* documents that name a remote context (U0 sets a vocabulary, U1 none) and
\* have one entry: a term, or a compact IRI with that term as its prefix
StoreDocs ==
  {JObj(<<P(KwContext, JStr(u)), e>>) :
     u \in {U0, U1},
     e \in {P(<<"q">>, JStr(PlainV)), P(CompactQX, JStr(PlainV)),
            P(TermN, JStr(PlainV))}}

\* src/lib/expand.ts:114  new JSONLDContextBag({ cacheMethod: 'cache' })
InitStore ==
  /\ ctxs = <<>>
  /\ bag = JSONLDContextBag(EmptyMap, <<"cache">>)
  /\ heap = <<>>
  /\ stack = <<>>
  /\ pc = "idle"
  /\ awaiting = 0
  /\ error = ""
  /\ tasks = <<>>
  /\ hits = <<>>
  /\ calls = <<>>
  /\ visited = <<>>

\* src/lib/expand.ts:639-682  expand(doc, { bag }) is called when no call is
\* running, with a document of its own; the call is logged, and the document
\* the call before it returned is noted with that call
Expand(doc) ==
  /\ pc \in {"idle", "done"}
  /\ Len(calls) < MaxRuns
  /\ \E l \in {Load(<<>>, doc)} :
        /\ heap' = l.h
        /\ stack' = <<Node(l.v, FALSE, l.h[l.v.r].e, Undefined, Undefined, 0)>>
  /\ pc' = "top"
  /\ visited' = <<>>
  /\ calls' = Append(
       IF calls = <<>> THEN calls
       ELSE [calls EXCEPT ![Len(calls)].out =
               Tree(heap, HRef(visited[Len(visited)].cell))],
       [doc |-> doc, out |-> JUndefined])
  /\ UNCHANGED <<awaiting, error, ctxs, bag, tasks, hits>>

\* the calls of expand and the steps these documents make it take
NextStore ==
  \/ \E doc \in StoreDocs : Expand(doc)
  \/ Suspend
  \/ Finalize
  \/ SkipKeyword
  \/ Terminal
  \/ \E t \in 1..Len(tasks) : Respond(t)

SpecStore == InitStore /\ [][NextStore]_vars

\* the call of expand that has just returned was given the document of the
\* first call on the store, after calls for other documents
AfterOthers ==
  /\ pc = "done"
  /\ Len(calls) > 2
  /\ calls[Len(calls)].doc = calls[1].doc
  /\ \A c \in 2..(Len(calls) - 1) : calls[c].doc # calls[1].doc

\* C25 (as stated): on a caching store, expand returns for a document D
\* expanded after other documents that name the same remote context what it
\* returned for D as the first document expanded with the store.
C25_Stated == AfterOthers => Returned = calls[1].out

\* the mappings and sequences expand has pushed on its stack so far, in the
\* order in which they were finished, then those still on the stack
Pushed ==
  [i \in 1..Len(visited) |-> visited[i].cell]
    \o [n \in 1..Len(stack) |-> stack[n].value.r]

\* C26 (as stated): during one call of expand no mapping and no sequence of
\* the document is pushed on the traversal stack a second time, also after
\* a finished value was folded into an array of its parent.
C26_Stated ==
  Running \/ pc = "done" =>
    \A a, b \in 1..Len(Pushed) : a # b => Pushed[a] # Pushed[b]

\* C27 (as stated): on a store with cacheMethod 'cache' that was given no
\* contexts, the fetcher is called at most once for every URL, also by two
\* calls of fetch that are in flight at the same time.
C27_Stated ==
  (bag.cacheMethod = "cache" /\ ~bag.seeded) =>
    \A n, m \in 1..Len(hits) : n # m => hits[n].url # hits[m].url

\* the entries of the context object json that define a term by a mapping
TermEntries(json) ==
  {n \in 1..Len(json.c) :
     ~startsWithAt(json.c[n].k) /\ json.c[n].v.t = "object"}

\* the context m holds for the term of the entry e a definition with the
\* @type and the @container the entry declares
AsDeclared(m, e) ==
  /\ e.k \in DOMAIN m.types
  /\ m.types[e.k] # 0
  /\ m.defs[m.types[e.k]].type = asString(TGet(e.v, KwType))
  /\ m.defs[m.types[e.k]].container = asString(TGet(e.v, KwContainer))

\* C28 (as stated): when fromJSONObject has returned, the definition of
\* every term that an entry of the context object defines by a mapping has
\* the @type and the @container of that entry, whatever later entries
\* resolve to the same IRI.
C28_Stated ==
  \A c \in CallsOf("fromJSONObject") :
     (c = Len(calls) /\ calls[c].res # 0) =>
       \A n \in TermEntries(calls[c].json) :
          AsDeclared(ctxs[calls[c].res], calls[c].json.c[n])

\* the value x holds the value v given in the document: it is v, or an
\* array with v among its elements
Carries(x, v) ==
  \/ x = v
  \/ /\ isArrayIn(heap, x)
     /\ \E n \in 1..Len(heap[x.r].e) : heap[x.r].e[n].v = v

\* C29 (as stated): when expand has returned, an entry whose term is
\* IRI-typed and whose value is a number, a boolean or a mapping is found
\* under the IRI the term resolved to, still carrying that value.
C29_Stated ==
  pc = "done" =>
    \A i \in Mappings : \A j \in 1..Len(visited[i].children) :
       (/\ IRITyped(visited[i], j)
        /\ KeyIRI(visited[i], j) # Undefined
        /\ \/ visited[i].children[j].v.t \in {"number", "boolean"}
           \/ isObjectIn(heap, visited[i].children[j].v))
       => Carries(HGet(heap[visited[i].cell], KeyIRI(visited[i], j)),
                  visited[i].children[j].v)

(***************************************************************************)
(* Termination of the loop of expand (Spec)                                *)
(***************************************************************************)
\* every node on the stack has passed no more children than it has
IndexInBounds ==
  \A n \in 1..Len(stack) :
     /\ 0 <= stack[n].index
     /\ stack[n].index <= Len(Children(heap, stack[n]))

\* a step leaves the index of a node that stays on the stack as it is, or
\* moves it forward
IndexMonotone ==
  [][\A n \in 1..Len(stack) :
       (n <= Len(stack') /\ stack'[n].value = stack[n].value
        /\ stack'[n].index # 0)
         => stack'[n].index >= stack[n].index]_vars

\* every @context of the document is an embedded object: no promise was
\* made, and the mappings hold and held no @context of another shape
EmbeddedOnly ==
  /\ tasks = <<>>
  /\ \A o \in 1..Len(heap) :
        (~heap[o].arr /\ HHas(heap[o], KwContext))
          => isObjectIn(heap, HGet(heap[o], KwContext))
  /\ \A n \in 1..Len(stack) : stack[n].own.t \in {"undefined", "object"}
  /\ \A i \in 1..Len(visited) : visited[i].own.t \in {"undefined", "object"}

\* C30 (as stated): for a document whose contexts are all embedded objects,
\* every node on the stack has 0 <= index <= number of children, and the
\* loop of expand is left with an empty stack only: every node pushed has
\* been popped when expand is over.
C30_Stated ==
  EmbeddedOnly =>
    /\ IndexInBounds
    /\ ~Running => (pc = "done" /\ stack = <<>>)

====
